---- MODULE Spec2Model ----
(***************************************************************************)
(* MyPocket Reader: the local dataset store (lib/compression.ts, kept in   *)
(* src/unnamed/part_003) and the PocketImporter component                  *)
(* (src/pocket-importer.tsx) as a state machine.                           *)
(*                                                                         *)
(* Texts.  A JavaScript string that matters only as "the serialization of  *)
(* a value" is kept as a tagged value, so that a text and the value it     *)
(* denotes stay different things and every conversion is a step that can   *)
(* fail:                                                                   *)
(*   Raw(s)        a text that is not JSON (s is its characters)           *)
(*   Json(v)       the text JSON.stringify produces for the JSON value v   *)
(*   Lz(txt, n)    the text LZString.compressToUTF16 produces for txt; n   *)
(*                 is its UTF-8 byte length (the library's business)       *)
(* JSON values are tagged too (JNull, JNum, JStr, JObj).  Titles, urls,    *)
(* tags, quotes and search terms are ordinary strings of ASCII letters.    *)
(***************************************************************************)
EXTENDS Integers, Sequences, FiniteSets, TLC

VARIABLES
  store,                 \* localStorage[CACHE_KEY]: a text, or NoItem
  articles,              \* useState<Article[]>
  highlightData,         \* useState<ArticleWithHighlights[]>
  searchTerm,
  selectedTags,
  showFavoritesOnly,
  showHighlightsOnly,
  showReadOnly,
  showUnreadOnly,
  sortBy,
  currentPage,
  itemsPerPage,
  pageParam,             \* the page parameter of the address bar, 0 when it has none
  cacheInfo,
  compressionMetadata,
  showCacheMenu,
  showClearCacheConfirm,
  mounted,               \* the mount effect (loadFromCache) has run
  crashed,               \* a render threw: the component tree is gone
  loading,               \* useState(false): handleCSVUpload or handleJSONUpload runs
  zipLoading,            \* useState(false): handleZipUpload runs
  awaited,               \* the promise the running upload handler awaits and what
                         \* it resolves with, or NoPromise
  saveTimer,             \* the debounced save is pending
  migrationTimers,       \* pending auto-migration callbacks
  now,                   \* Date.now(), in milliseconds
  warnedHours,           \* sessionStorage: the warning keys set, each held as the
                         \* time its warning was shown (its key is warningKey of it)
  edits,                 \* the times a handler has set the dataset in this session:
                         \* an upload is counted when it starts, once or as often
                         \* as it is going to set the dataset
  alerts,                \* kind of the alert the last step raised, or "none"
  op,                    \* the operation the last step performed
  ret,                   \* what a library call of the last step returned
  thrown,                \* the last step's call ended by throwing
  wrote                  \* the last step called localStorage.setItem/removeItem

dataVars   == <<articles, highlightData>>
filterVars == <<searchTerm, selectedTags, showFavoritesOnly, showHighlightsOnly,
                showReadOnly, showUnreadOnly, sortBy>>
pageVars   == <<currentPage, itemsPerPage, pageParam>>
infoVars   == <<cacheInfo, compressionMetadata>>
menuVars   == <<showCacheMenu, showClearCacheConfirm>>
timerVars  == <<saveTimer, migrationTimers>>
uploadVars == <<loading, zipLoading, awaited>>
lifeVars   == <<mounted, crashed, uploadVars>>
traceVars  == <<alerts, op, ret, thrown, wrote>>
vars == <<store, dataVars, filterVars, pageVars, infoVars, menuVars, timerVars,
          lifeVars, now, warnedHours, edits, traceVars>>

-----------------------------------------------------------------------------
(* Program constants *)

COMPRESSION_VERSION == "v1"
MAX_STORAGE_SIZE == 52428800
MAX_ARTICLES == 50000
MAX_HIGHLIGHTS == 100000
DefaultItemsPerPage == 25

\* useState(true), and no call of setUseCompression anywhere in the component
useCompression == TRUE

-----------------------------------------------------------------------------
(* Texts and JSON values *)

NoItem == [t |-> "absent"]                 \* getItem(key) === null
Raw(s) == [t |-> "raw", s |-> s]
Json(v) == [t |-> "json", v |-> v]
Lz(txt, n) == [t |-> "lz", of |-> txt, bytes |-> n]

JNull == [j |-> "null"]
JNum(n) == [j |-> "num", n |-> n]
JStr(text) == [j |-> "str", s |-> text]       \* a string value; text is its content
JObj(o) == [j |-> "obj", o |-> o]

Max(a, b) == IF a >= b THEN a ELSE b

\* the number of characters of the decimal numeral of n >= 0
RECURSIVE Digits(_)
Digits(n) == IF n < 10 THEN 1 ELSE 1 + Digits(n \div 10)

\* JSON.stringify of a string of plain ASCII letters: the quotes and the letters
StrSize(s) == Len(s) + 2

\* the commas of an array of n elements
Commas(n) == Max(n - 1, 0)

\* The sizes of the elements lo..hi of an array, summed by halving the range (a
\* dataset at the record limit has 50,000 of them).
RECURSIVE TagsSize(_, _, _)
TagsSize(s, lo, hi) ==
  IF lo > hi THEN 0
  ELSE IF lo = hi THEN StrSize(s[lo])
  ELSE LET mid == (lo + hi) \div 2
       IN TagsSize(s, lo, mid) + TagsSize(s, mid + 1, hi)

ArticleSize(a) ==
    Len("{\"title\":") + StrSize(a.title)
  + Len(",\"url\":") + StrSize(a.url)
  + Len(",\"time_added\":") + Digits(a.time_added)
  + Len(",\"tags\":") + StrSize(a.tags)
  + Len(",\"status\":") + StrSize(a.status)
  + Len(",\"isFavorite\":") + (IF a.isFavorite THEN 4 ELSE 5)
  + Len(",\"parsedTags\":[") + TagsSize(a.parsedTags, 1, Len(a.parsedTags))
  + Commas(Len(a.parsedTags)) + Len("]}")

RECURSIVE ArticlesSize(_, _, _)
ArticlesSize(s, lo, hi) ==
  IF lo > hi THEN 0
  ELSE IF lo = hi THEN ArticleSize(s[lo])
  ELSE LET mid == (lo + hi) \div 2
       IN ArticlesSize(s, lo, mid) + ArticlesSize(s, mid + 1, hi)

HighlightSize(h) ==
    Len("{\"quote\":") + StrSize(h.quote)
  + Len(",\"created_at\":") + Digits(h.created_at)
  + Len("}")

RECURSIVE HighlightsSize(_, _, _)
HighlightsSize(s, lo, hi) ==
  IF lo > hi THEN 0
  ELSE IF lo = hi THEN HighlightSize(s[lo])
  ELSE LET mid == (lo + hi) \div 2
       IN HighlightsSize(s, lo, mid) + HighlightsSize(s, mid + 1, hi)

ArticleWithHighlightsSize(w) ==
    Len("{\"url\":") + StrSize(w.url)
  + Len(",\"title\":") + StrSize(w.title)
  + Len(",\"highlights\":[") + HighlightsSize(w.highlights, 1, Len(w.highlights))
  + Commas(Len(w.highlights)) + Len("]}")

RECURSIVE HighlightDataSize(_, _, _)
HighlightDataSize(s, lo, hi) ==
  IF lo > hi THEN 0
  ELSE IF lo = hi THEN ArticleWithHighlightsSize(s[lo])
  ELSE LET mid == (lo + hi) \div 2
       IN HighlightDataSize(s, lo, mid) + HighlightDataSize(s, mid + 1, hi)

\* JSON.stringify(cacheData), in bytes
CachedDataSize(d) ==
    Len("{\"articles\":[") + ArticlesSize(d.articles, 1, Len(d.articles))
  + Commas(Len(d.articles))
  + Len("],\"highlightData\":[")
  + HighlightDataSize(d.highlightData, 1, Len(d.highlightData))
  + Commas(Len(d.highlightData))
  + Len("],\"timestamp\":") + Digits(d.timestamp)
  + Len("}")

IsCachedData(v) ==
  /\ v.j = "obj"
  /\ DOMAIN v.o = {"articles", "highlightData", "timestamp"}

IsEnvelope(v) ==
  /\ v.j = "obj"
  /\ {"compressed", "version", "data"} \subseteq DOMAIN v.o

\* Natural numbers beyond the machine integers, as sequences of limbs of 15 bits
\* with the least significant limb first: the 53-bit significand of a double and
\* its decimal multiples
Pow2(n) == 2 ^ n

\* x * k + carry
RECURSIVE BigMulAdd(_, _, _)
BigMulAdd(x, k, carry) ==
  IF x = <<>>
  THEN IF carry = 0 THEN <<>>
       ELSE <<carry % Pow2(15)>> \o BigMulAdd(<<>>, k, carry \div Pow2(15))
  ELSE <<(Head(x) * k + carry) % Pow2(15)>>
       \o BigMulAdd(Tail(x), k, (Head(x) * k + carry) \div Pow2(15))

\* x - 1 for x > 0
RECURSIVE BigDec(_)
BigDec(x) ==
  IF Head(x) > 0 THEN <<Head(x) - 1>> \o Tail(x)
  ELSE <<Pow2(15) - 1>> \o BigDec(Tail(x))

BigLimb(x, i) == IF i <= Len(x) THEN x[i] ELSE 0

\* -1, 0 or 1 as x is less than, equal to or greater than y
BigCmp(x, y) ==
  LET differ == { i \in 1..Max(Len(x), Len(y)) : BigLimb(x, i) # BigLimb(y, i) }
  IN IF differ = {} THEN 0
     ELSE LET top == CHOOSE i \in differ : \A k \in differ : k <= i
          IN IF BigLimb(x, top) < BigLimb(y, top) THEN -1 ELSE 1

\* floor(x / 2^bits), and whether the division is exact
BigShift(x, bits) ==
  LET whole == bits \div 15
      part == Pow2(bits % 15)
      y == SubSeq(x, whole + 1, Len(x))
  IN [q |-> [i \in 1..Len(y) |->
               (y[i] \div part) + (BigLimb(y, i + 1) % part) * (Pow2(15) \div part)],
      exact |-> /\ \A i \in 1..Len(x) : i <= whole => x[i] = 0
                /\ (y = <<>> \/ y[1] % part = 0)]

BigOdd(x) == x # <<>> /\ x[1] % 2 = 1

\* The one member of a singleton. Only({ e(x) : x \in {d} }) is e of the value of
\* d, which is computed once however often e reads x.
Only(S) == CHOOSE x \in S : TRUE

\* round to nearest, ties to even: q is the quotient, more and tie tell whether
\* the remainder is more than, or exactly, half a unit
RoundEven(q, more, tie) ==
  IF more \/ (tie /\ BigOdd(q)) THEN BigMulAdd(q, 1, 1) ELSE q

\* A positive double is m * 2^(-s) with 2^52 <= m < 2^53; a significand rounded
\* up to 2^53 is 2^52 with the next exponent.
Double(m, s) ==
  IF BigCmp(m, <<0, 0, 0, Pow2(8)>>) = 0
  THEN [m |-> <<0, 0, 0, Pow2(7)>>, s |-> s - 1]
  ELSE [m |-> m, s |-> s]

\* a * 2^j for the least j that makes it at least den
RECURSIVE Normalised(_, _, _)
Normalised(a, den, j) ==
  IF a >= den THEN [a |-> a, j |-> j] ELSE Normalised(2 * a, den, j + 1)

\* n more groups of four bits of the quotient of r / den for a remainder r < den,
\* appended to the bits of acc (den is the size of a text, below 2^27)
RECURSIVE QuotientBits(_, _, _, _)
QuotientBits(r, den, n, acc) ==
  IF n = 0 THEN [m |-> acc, r |-> r]
  ELSE Only({ QuotientBits(next.r, den, n - 1, next.m) :
                next \in {[r |-> (Pow2(4) * r) % den,
                           m |-> BigMulAdd(acc, Pow2(4), (Pow2(4) * r) \div den)]} })

\* the double a / den for integers 0 < a <= den: the leading bit and 52 more,
\* rounded by the remainder
DoubleQuotient(a, den) ==
  Only({ Only({ Only({ Double(m, 52 + first.j) :
                         m \in {RoundEven(bits.m, 2 * bits.r > den, 2 * bits.r = den)} }) :
                  bits \in {QuotientBits(first.a - den, den, 13, <<1>>)} }) :
           first \in {Normalised(a, den, 0)} })

\* the double x * 100: the product has 59 or 60 bits, of which 53 are kept
DoubleTimes100(x) ==
  Only({ Only({ Only({ Double(m, x.s - drop) :
                         m \in {RoundEven(BigShift(product, drop).q,
                                          product[1] % Pow2(drop) > Pow2(drop - 1),
                                          product[1] % Pow2(drop) = Pow2(drop - 1))} }) :
                  drop \in {IF BigCmp(product, <<0, 0, 0, Pow2(14)>>) < 0 THEN 6 ELSE 7} }) :
           product \in {BigMulAdd(x.m, 100, 0)} })

\* x * 10^k, four decimal digits at a time
RECURSIVE BigTimes10(_, _)
BigTimes10(x, k) ==
  IF k < 4 THEN BigMulAdd(x, 10 ^ k, 0)
  ELSE Only({ BigMulAdd(y, 10 ^ 4, 0) : y \in {BigTimes10(x, k - 4)} })

\* Some multiple of 10^(-k) is read back as the double m * 2^(1 - bits): the
\* numbers that round to it lie between (2m - 1) * 2^(-bits) and
\* (2m + 1) * 2^(-bits), the ends included when m is even.
Identifies(m, bits, even, k) ==
  Only({ Only({ BigCmp(BigMulAdd(l.q, 1, IF even THEN (IF l.exact THEN 0 ELSE 1)
                                         ELSE 1 + (IF h.exact THEN 1 ELSE 0)),
                       h.q) <= 0 :
                  l \in {BigShift(ends.low, bits)}, h \in {BigShift(ends.high, bits)} }) :
           ends \in {[low |-> BigTimes10(BigDec(BigMulAdd(m, 2, 0)), k),
                      high |-> BigTimes10(BigMulAdd(m, 2, 1), k)]} })

\* the least number of decimal places, from k on, that identify the double
RECURSIVE DecimalPlaces(_, _, _, _)
DecimalPlaces(m, bits, even, k) ==
  IF Identifies(m, bits, even, k) THEN k ELSE DecimalPlaces(m, bits, even, k + 1)

\* the number of characters of String(x) for a double x with 0.000001 <= x < 1000:
\* the digits of its integer part and, unless it is an integer, the point and
\* the fewest decimals that identify it
DoubleChars(x) ==
  Only({ Digits(BigLimb(BigShift(x.m, x.s).q, 1))
         + (IF places = 0 THEN 0 ELSE 1 + places) :
           places \in {DecimalPlaces(x.m, x.s + 1, ~BigOdd(x.m), 0)} })

\* JSON.stringify of compressionRatio = ((originalSize - compressedSize) /
\* originalSize) * 100, in characters; num = originalSize - compressedSize and
\* den = originalSize, with -den <= num <= den
RatioSize(ratio) ==
  IF ratio.num = 0 THEN 1
  ELSE (IF ratio.num < 0 THEN 1 ELSE 0)
       + Only({ Only({ DoubleChars(x) : x \in {DoubleTimes100(q)} }) :
                  q \in {DoubleQuotient(IF ratio.num < 0 THEN -ratio.num ELSE ratio.num,
                                        ratio.den)} })

\* JSON.stringify(metadata), in bytes
MetadataSize(m) ==
    Len("{\"version\":") + StrSize(m.version)
  + Len(",\"timestamp\":") + Digits(m.timestamp)
  + Len(",\"originalSize\":") + Digits(m.originalSize)
  + Len(",\"compressedSize\":") + Digits(m.compressedSize)
  + Len(",\"compressionRatio\":") + RatioSize(m.compressionRatio)
  + Len("}")

\* the quotes and backslashes of a string: JSON.stringify writes each as two bytes
RawSpecials(s) == Cardinality({ i \in 1..Len(s) : SubSeq(s, i, i) \in {"\"", "\\"} })

\* the quotes of JSON.stringify of the articles lo..hi: seven keys, four strings
\* and the tags of each
RECURSIVE ArticlesSpecials(_, _, _)
ArticlesSpecials(s, lo, hi) ==
  IF lo > hi THEN 0
  ELSE IF lo = hi THEN 22 + 2 * Len(s[lo].parsedTags)
  ELSE LET mid == (lo + hi) \div 2
       IN ArticlesSpecials(s, lo, mid) + ArticlesSpecials(s, mid + 1, hi)

\* of the AnnotatedRecords lo..hi: three keys and two strings, and two keys and
\* one string for each highlight
RECURSIVE HighlightDataSpecials(_, _, _)
HighlightDataSpecials(s, lo, hi) ==
  IF lo > hi THEN 0
  ELSE IF lo = hi THEN 10 + 6 * Len(s[lo].highlights)
  ELSE LET mid == (lo + hi) \div 2
       IN HighlightDataSpecials(s, lo, mid) + HighlightDataSpecials(s, mid + 1, hi)

\* The quotes and backslashes of a text and of JSON.stringify of a value. The
\* strings of a dataset hold none, and neither does the output of compressToUTF16
\* in the model, whose size is the environment's choice.
RECURSIVE TextSpecials(_)
RECURSIVE JsonSpecials(_)
JsonSpecials(v) ==
  CASE v.j = "null" -> 0
    [] v.j = "num" -> 0
    [] v.j = "str" -> 2 + 2 * TextSpecials(v.s)
    [] IsCachedData(v) ->
           6 + ArticlesSpecials(v.o.articles, 1, Len(v.o.articles))
             + HighlightDataSpecials(v.o.highlightData, 1, Len(v.o.highlightData))
    [] IsEnvelope(v) ->
           8 + 2 + 2 * TextSpecials(v.o.data)
             + (IF "metadata" \in DOMAIN v.o THEN 14 ELSE 0)
    [] OTHER -> 0

TextSpecials(text) ==
  CASE text.t = "raw" -> RawSpecials(text.s)
    [] text.t = "json" -> JsonSpecials(text.v)
    [] OTHER -> 0

\* The bytes of JSON.stringify of a value and new Blob([text]).size. A string
\* value is its text between quotes with every quote and backslash escaped; an
\* envelope is written with its members in the order the code gives them.
RECURSIVE BlobSize(_)
RECURSIVE JsonSize(_)
JsonSize(v) ==
  CASE v.j = "null" -> 4
    [] v.j = "num" -> Digits(v.n)
    [] v.j = "str" -> 2 + BlobSize(v.s) + TextSpecials(v.s)
    [] IsCachedData(v) -> CachedDataSize(v.o)
    [] IsEnvelope(v) ->
           Len("{\"compressed\":") + (IF v.o.compressed THEN 4 ELSE 5)
         + Len(",\"version\":") + StrSize(v.o.version)
         + Len(",\"data\":") + 2 + BlobSize(v.o.data) + TextSpecials(v.o.data)
         + (IF "metadata" \in DOMAIN v.o
            THEN Len(",\"metadata\":") + MetadataSize(v.o.metadata) ELSE 0)
         + Len("}")
    [] OTHER -> 2

\* new Blob([text]).size
BlobSize(text) ==
  CASE text.t = "raw" -> Len(text.s)
    [] text.t = "json" -> JsonSize(text.v)
    [] text.t = "lz" -> text.bytes
    [] OTHER -> 0

\* JavaScript truthiness of a JSON value
Truthy(v) ==
  CASE v.j = "null" -> FALSE
    [] v.j = "num" -> v.n # 0
    [] v.j = "str" -> v.s # Raw("")
    [] OTHER -> TRUE

-----------------------------------------------------------------------------
(* lib/compression.ts *)

\* compressionRatio is the fraction num/den of the original size that was saved
\* (the code multiplies it by 100); 0 is ZeroRatio
Ratio(originalSize, compressedSize) ==
  [num |-> originalSize - compressedSize, den |-> originalSize]
ZeroRatio == [num |-> 0, den |-> 1]

\* What the environment decides in one step:
\*   lz      LZString.compressToUTF16: [threw |-> FALSE, size |-> how its output
\*           compares with its input in bytes] or [threw |-> TRUE]
\*   dec     LZString.decompressFromUTF16 given a text no compressToUTF16 produced:
\*           "null", "empty" or "garbage"
\*   quota   localStorage.setItem throws
Env(lz, dec, quota) == [lz |-> lz, dec |-> dec, quota |-> quota]
DecodeOutcomes == {"null", "empty", "garbage"}

\* new Blob([compressToUTF16(text)]).size for a text of originalSize bytes: smaller
\* (the usual case), equal, or larger (a short input: every output character takes
\* two or three bytes in UTF-8)
CompressedSize(originalSize, lz) ==
  CASE lz.size = "smaller" -> originalSize \div 2 + 1
    [] lz.size = "equal" -> originalSize
    [] OTHER -> originalSize + originalSize \div 2

Smaller == [threw |-> FALSE, size |-> "smaller"]
LzOutcomes == { [threw |-> FALSE, size |-> k] : k \in {"smaller", "equal", "larger"} }

\* [compressed, originalSize, compressedSize, compressionRatio]; each const of the
\* code is one value, measured once
compressData_NoFallback(jsonString, lz) ==
  Only({ Only({ [compressed |-> Lz(jsonString, compressedSize),
                 originalSize |-> originalSize,
                 compressedSize |-> compressedSize,
                 compressionRatio |-> Ratio(originalSize, compressedSize)] :
                  compressedSize \in {CompressedSize(originalSize, Smaller)} }) :
           originalSize \in {BlobSize(jsonString)} })
compressData(jsonString, lz) ==
  Only({ IF ~lz.threw
         THEN Only({ Only({ [compressed |-> compressed,
                             originalSize |-> originalSize,
                             compressedSize |-> compressedSize,
                             compressionRatio |-> Ratio(originalSize, compressedSize)] :
                              compressedSize \in {BlobSize(compressed)} }) :
                       compressed \in {Lz(jsonString, CompressedSize(originalSize, lz))} })
         ELSE [compressed |-> jsonString,
               originalSize |-> originalSize,
               compressedSize |-> originalSize,
               compressionRatio |-> ZeroRatio] :
           originalSize \in {BlobSize(jsonString)} })

\* LZString.decompressFromUTF16: the original of a compressed text, null for the
\* empty text, and for any other text whatever the decoder makes of it
decompressFromUTF16(data, dec) ==
  CASE data.t = "lz" -> [null |-> FALSE, text |-> data.of]
    [] data = Raw("") -> [null |-> TRUE, text |-> Raw("")]
    [] dec = "null" -> [null |-> TRUE, text |-> Raw("")]
    [] dec = "empty" -> [null |-> FALSE, text |-> Raw("")]
    [] OTHER -> [null |-> FALSE, text |-> Raw("garbage")]

decompressData_NoDecompress(data, dec) == data
decompressData(data, dec) ==
  LET decompressed == decompressFromUTF16(data, dec)
  IN IF decompressed.null \/ decompressed.text = Raw("")
     THEN data
     ELSE decompressed.text

\* JSON.parse: [ok, value]
JSONparse(text) ==
  IF text.t = "json" THEN [ok |-> TRUE, value |-> text.v]
  ELSE [ok |-> FALSE, value |-> JNull]

Metadata(version, timestamp, originalSize, compressedSize, compressionRatio) ==
  [version |-> version, timestamp |-> timestamp, originalSize |-> originalSize,
   compressedSize |-> compressedSize, compressionRatio |-> compressionRatio]

\* localStorage.setItem(key, text) on store st: it writes the whole value, or it
\* throws (quota) and the key keeps what it held
setItem_Partial(st, text, env) == [store |-> text, thrown |-> env.quota]
setItem(st, text, env) ==
  IF env.quota THEN [store |-> st, thrown |-> TRUE] ELSE [store |-> text, thrown |-> FALSE]

\* [store, metadata, thrown]: the store after the call, what it returned, and
\* whether it threw instead (setItem rejected the write)
saveCompressedToLocalStorage(st, data, useC, t, env) ==
  LET jsonString == Json(data)
  IN IF useC
     THEN Only({ LET metadata == Metadata(COMPRESSION_VERSION, t,
                                          compressionResult.originalSize,
                                          compressionResult.compressedSize,
                                          compressionResult.compressionRatio)
                     compressedPayload == JObj([compressed |-> TRUE,
                                                version |-> COMPRESSION_VERSION,
                                                data |-> compressionResult.compressed,
                                                metadata |-> metadata])
                     set == setItem(st, Json(compressedPayload), env)
                 IN [store |-> set.store, thrown |-> set.thrown,
                     metadata |-> IF set.thrown THEN JNull ELSE metadata] :
                   compressionResult \in {compressData(jsonString, env.lz)} })
     ELSE LET set == setItem(st, jsonString, env)
          IN [store |-> set.store, thrown |-> set.thrown,
              metadata |-> IF set.thrown THEN JNull
                           ELSE Metadata(COMPRESSION_VERSION, t, BlobSize(jsonString),
                                         BlobSize(jsonString), ZeroRatio)]

LegacyMetadata_StaleSize(version, storedData, t) ==
  Metadata(version, t, BlobSize(storedData), 0, ZeroRatio)
LegacyMetadata(version, storedData, t) ==
  Metadata(version, t, BlobSize(storedData), BlobSize(storedData), ZeroRatio)

\* the catch (parseError) branch
LegacyRaw_AsLegacy(storedData, t) ==
  [data |-> JNull, metadata |-> LegacyMetadata("legacy", storedData, t)]
LegacyRaw(storedData, t) ==
  [data |-> JStr(storedData), metadata |-> LegacyMetadata("legacy-raw", storedData, t)]

\* the test parsed.compressed && parsed.version && parsed.data
IsCompressedFormat(parsed) ==
  /\ parsed.j = "obj"
  /\ {"compressed", "version", "data"} \subseteq DOMAIN parsed.o
  /\ parsed.o.compressed = TRUE
  /\ parsed.o.version # ""
  /\ parsed.o.data # Raw("")

\* [data, metadata]
loadCompressedFromLocalStorage(st, t, env) ==
  IF st = NoItem \/ st = Raw("")
  THEN [data |-> JNull, metadata |-> JNull]
  ELSE LET p == JSONparse(st)
           parsed == p.value
       IN IF ~p.ok \/ parsed.j = "null"
          THEN LegacyRaw(st, t)
          ELSE IF IsCompressedFormat(parsed)
               THEN LET decompressedString == decompressData(parsed.o.data, env.dec)
                        d == JSONparse(decompressedString)
                    IN IF ~d.ok \/ "metadata" \notin DOMAIN parsed.o
                       THEN LegacyRaw(st, t)
                       ELSE [data |-> d.value, metadata |-> parsed.o.metadata]
               ELSE [data |-> parsed, metadata |-> LegacyMetadata("legacy", st, t)]

\* the format a migration has something to do for
IsLegacyVersion_Always(metadata) == TRUE
IsLegacyVersion(metadata) ==
  metadata.version = "legacy" \/ metadata.version = "legacy-raw"

\* a migration that saves the stored text instead of the data loaded from it
migrateToCompressed_SavesText(st, t, env) ==
  LET loaded == loadCompressedFromLocalStorage(st, t, env)
  IN IF ~Truthy(loaded.data) \/ loaded.metadata = JNull
     THEN [store |-> st, result |-> FALSE, wrote |-> FALSE]
     ELSE IF ~IsLegacyVersion(loaded.metadata)
          THEN [store |-> st, result |-> TRUE, wrote |-> FALSE]
          ELSE LET saved == saveCompressedToLocalStorage(st, JStr(st), TRUE, t, env)
               IN [store |-> saved.store, result |-> ~saved.thrown, wrote |-> ~saved.thrown]

\* [store, result, wrote]
migrateToCompressed(st, t, env) ==
  LET loaded == loadCompressedFromLocalStorage(st, t, env)
      data == loaded.data
      metadata == loaded.metadata
  IN IF ~Truthy(data) \/ metadata = JNull
     THEN [store |-> st, result |-> FALSE, wrote |-> FALSE]
     ELSE IF ~IsLegacyVersion(metadata)
          THEN [store |-> st, result |-> TRUE, wrote |-> FALSE]
          ELSE LET saved == saveCompressedToLocalStorage(st, data, TRUE, t, env)
               IN IF saved.thrown
                  THEN [store |-> saved.store, result |-> FALSE, wrote |-> FALSE]
                  ELSE [store |-> saved.store, result |-> TRUE, wrote |-> TRUE]

-----------------------------------------------------------------------------
(* Datasets *)

Article(title, url, time_added, tags, status, isFavorite, parsedTags) ==
  [title |-> title, url |-> url, time_added |-> time_added, tags |-> tags,
   status |-> status, isFavorite |-> isFavorite, parsedTags |-> parsedTags]

Highlight(quote, created_at) == [quote |-> quote, created_at |-> created_at]

ArticleWithHighlights(url, title, highlights) ==
  [url |-> url, title |-> title, highlights |-> highlights]

CachedData(articlesData, highlightsData, timestamp) ==
  JObj([articles |-> articlesData, highlightData |-> highlightsData,
        timestamp |-> timestamp])

-----------------------------------------------------------------------------
(* Bounds of the model and the inputs drawn within them *)

OpenedAt == 1800000      \* Date.now() at Init: half past an hour of the clock
MaxTicks == 1            \* Tick steps taken by the clock
TickMillis == 1800000    \* one Tick: half an hour
MaxEdits == 2            \* dataset changes the user makes in one session
MaxHighlights == 1       \* annotations per AnnotatedRecord they grow it to

UrlA == "https://a.io"
UrlB == "https://b.io"
UrlC == "https://c.io"

ArtA == Article("Go Tips", UrlA, 10, "go|dev", "unread", FALSE, <<"go", "dev">>)
ArtB == Article("rust book", UrlB, 20, "dev|*", "read", TRUE, <<"dev">>)
HlA  == ArticleWithHighlights(UrlA, "Go Tips", <<Highlight("Keep it simple", 11)>>)

\* the datasets the library is given to save
SampleData(t) ==
  { CachedData(<<>>, <<>>, t),
    CachedData(<<ArtA>>, <<>>, t),
    CachedData(<<ArtA, ArtB>>, <<HlA>>, t) }

\* the environments of a step in which the codec and the host store work
Envs == { Env(lz, dec, FALSE) : lz \in LzOutcomes, dec \in DecodeOutcomes }

\* an envelope as saveCompressedToLocalStorage writes it
EnvelopeOf(data, t) ==
  saveCompressedToLocalStorage(NoItem, data, TRUE, t, Env(Smaller, "null", FALSE)).store

\* What the key may hold when the page is opened: nothing, the empty text, a text
\* that is not JSON, JSON that is no dataset, a bare dataset of an older release,
\* an envelope of this release, an envelope without its metadata, and an envelope
\* whose payload no compressToUTF16 produced.
InitialStores ==
  { NoItem, Raw(""), Raw("not json"), Json(JNull), Json(JNum(5)) }
  \cup { Json(d) : d \in SampleData(0) }
  \cup { EnvelopeOf(d, 0) : d \in SampleData(0) }
  \cup { Json(JObj([compressed |-> TRUE, version |-> COMPRESSION_VERSION,
                    data |-> Lz(Json(CachedData(<<ArtA>>, <<>>, 0)), 40)])),
         Json(JObj([compressed |-> TRUE, version |-> COMPRESSION_VERSION,
                    data |-> Raw("xyz"),
                    metadata |-> Metadata(COMPRESSION_VERSION, 0, 3, 3, ZeroRatio)])) }

-----------------------------------------------------------------------------
(* State at construction: the useState initial values, an untouched session *)

NoCall == [none |-> TRUE]

\* no file of the kind is in the archive
NoFile == [file |-> FALSE]

\* no upload handler is at an await
NoPromise == [promise |-> "none"]

InitApp ==
  /\ articles = <<>>
  /\ highlightData = <<>>
  /\ searchTerm = ""
  /\ selectedTags = <<>>
  /\ showFavoritesOnly = FALSE
  /\ showHighlightsOnly = FALSE
  /\ showReadOnly = FALSE
  /\ showUnreadOnly = FALSE
  /\ sortBy = "default"
  /\ currentPage = 1
  /\ itemsPerPage = DefaultItemsPerPage
  /\ pageParam = 0
  /\ cacheInfo = JNull
  /\ compressionMetadata = JNull
  /\ showCacheMenu = FALSE
  /\ showClearCacheConfirm = FALSE
  /\ mounted = FALSE
  /\ crashed = FALSE
  /\ loading = FALSE
  /\ zipLoading = FALSE
  /\ awaited = NoPromise
  /\ saveTimer = FALSE
  /\ migrationTimers = 0
  /\ now = OpenedAt
  /\ warnedHours = {}
  /\ edits = 0
  /\ alerts = "none"
  /\ op = "init"
  /\ ret = NoCall
  /\ thrown = FALSE
  /\ wrote = FALSE

appVars == <<dataVars, filterVars, pageVars, infoVars, menuVars, timerVars,
             lifeVars, warnedHours, edits, alerts>>

Tick ==
  /\ now < OpenedAt + MaxTicks * TickMillis
  /\ now' = now + TickMillis
  /\ op' = "Tick"
  /\ ret' = NoCall
  /\ thrown' = FALSE
  /\ wrote' = FALSE
  /\ UNCHANGED <<store, appVars>>

-----------------------------------------------------------------------------
(* SpecStore: the library alone, called on whatever the key holds *)

\* a save in an environment of envs; ret keeps the arguments, the metadata
\* returned and what the environment did
LibSaveIn(envs) ==
  \E data \in SampleData(now), useC \in BOOLEAN :
    \E env \in envs :
      LET saved == saveCompressedToLocalStorage(store, data, useC, now, env)
      IN /\ store' = saved.store
         /\ op' = "saveCompressedToLocalStorage"
         /\ ret' = [data |-> data, useCompression |-> useC,
                    metadata |-> saved.metadata, env |-> env]
         /\ thrown' = saved.thrown
         /\ wrote' = ~saved.thrown
         /\ UNCHANGED <<appVars, now>>

LibSave == LibSaveIn(Envs)

LibLoad ==
  \E dec \in DecodeOutcomes :
    LET loaded == loadCompressedFromLocalStorage(store, now, Env(Smaller, dec, FALSE))
    IN /\ op' = "loadCompressedFromLocalStorage"
       /\ ret' = loaded
       /\ thrown' = FALSE
       /\ wrote' = FALSE
       /\ UNCHANGED <<store, appVars, now>>

LibMigrate ==
  \E env \in Envs :
    LET migrated == migrateToCompressed(store, now, env)
    IN /\ store' = migrated.store
       /\ op' = "migrateToCompressed"
       /\ ret' = [result |-> migrated.result, env |-> env]
       /\ thrown' = FALSE
       /\ wrote' = migrated.wrote
       /\ UNCHANGED <<appVars, now>>

InitStore == InitApp /\ store \in InitialStores
NextStore == LibSave \/ LibLoad \/ LibMigrate \/ Tick
SpecStore == InitStore /\ [][NextStore]_vars

-----------------------------------------------------------------------------
(* Strings: the String.prototype methods the component calls, over the
   characters the inputs are written in *)

UpperCase == "ABCDEFGHIJKLMNOPQRSTUVWXYZ"
LowerCase == "abcdefghijklmnopqrstuvwxyz"

CharAt(s, i) == SubSeq(s, i, i)

\* position of the one-character string c in alphabet, 0 when it is not there
IndexIn(alphabet, c) ==
  IF \E i \in 1..Len(alphabet) : CharAt(alphabet, i) = c
  THEN CHOOSE i \in 1..Len(alphabet) : CharAt(alphabet, i) = c
  ELSE 0

\* the lower-case letter of every upper-case letter
Lowered ==
  [c \in { CharAt(UpperCase, i) : i \in 1..Len(UpperCase) } |->
     CharAt(LowerCase, IndexIn(UpperCase, c))]

LowerOf(c) == IF c \in DOMAIN Lowered THEN Lowered[c] ELSE c

RECURSIVE toLowerCase(_)
toLowerCase(s) ==
  IF s = "" THEN ""
  ELSE Only({ LowerOf(CharAt(s, 1)) \o toLowerCase(rest) : rest \in {SubSeq(s, 2, Len(s))} })

\* s.includes(sub)
includes(s, sub) ==
  \E text \in {s} : \E part \in {sub} :
    \E i \in 0..(Len(text) - Len(part)) : SubSeq(text, i + 1, i + Len(part)) = part

RECURSIVE trimStart(_)
trimStart(s) ==
  IF s # "" /\ CharAt(s, 1) = " " THEN trimStart(SubSeq(s, 2, Len(s))) ELSE s

RECURSIVE trimEnd(_)
trimEnd(s) ==
  IF s # "" /\ CharAt(s, Len(s)) = " " THEN trimEnd(SubSeq(s, 1, Len(s) - 1)) ELSE s

trim(s) == trimEnd(trimStart(s))

\* s.split(sep) for a one-character sep: the pieces between the separators, the
\* empty ones included; acc is the piece being read
RECURSIVE SplitFrom(_, _, _)
SplitFrom(s, sep, acc) ==
  IF s = "" THEN <<acc>>
  ELSE IF CharAt(s, 1) = sep
       THEN <<acc>> \o SplitFrom(SubSeq(s, 2, Len(s)), sep, "")
       ELSE SplitFrom(SubSeq(s, 2, Len(s)), sep, acc \o CharAt(s, 1))

split(s, sep) == SplitFrom(s, sep, "")

Range(seq) == { seq[i] : i \in 1..Len(seq) }

\* array.includes(x)
Contains(seq, x) == \E i \in 1..Len(seq) : seq[i] = x

\* a.localeCompare(b) in the default locale, as a sign: letters compare without
\* regard to case first, the space sorts before the digits and the digits before
\* the letters; texts equal up to case put the lower-case letter first
Collation == " 0123456789abcdefghijklmnopqrstuvwxyz"

RECURSIVE ComparePrimary(_, _)
ComparePrimary(a, b) ==
  IF a = "" /\ b = "" THEN 0
  ELSE IF a = "" THEN -1
  ELSE IF b = "" THEN 1
  ELSE LET ra == IndexIn(Collation, LowerOf(CharAt(a, 1)))
           rb == IndexIn(Collation, LowerOf(CharAt(b, 1)))
       IN IF ra < rb THEN -1
          ELSE IF ra > rb THEN 1
          ELSE ComparePrimary(SubSeq(a, 2, Len(a)), SubSeq(b, 2, Len(b)))

RECURSIVE CompareCase(_, _)
CompareCase(a, b) ==
  IF a = "" \/ b = "" THEN 0
  ELSE LET ua == IndexIn(UpperCase, CharAt(a, 1)) > 0
           ub == IndexIn(UpperCase, CharAt(b, 1)) > 0
       IN IF ~ua /\ ub THEN -1
          ELSE IF ua /\ ~ub THEN 1
          ELSE CompareCase(SubSeq(a, 2, Len(a)), SubSeq(b, 2, Len(b)))

localeCompare(a, b) ==
  LET primary == ComparePrimary(a, b) IN IF primary # 0 THEN primary ELSE CompareCase(a, b)

-----------------------------------------------------------------------------
(* The filter engine of PocketImporter *)

\* tagString.split("|").map(trim).filter(Boolean)
RECURSIVE TagParts(_)
TagParts(parts) ==
  IF parts = <<>> THEN <<>>
  ELSE (IF trim(Head(parts)) = "" THEN <<>> ELSE <<trim(Head(parts))>>)
       \o TagParts(Tail(parts))

\* the filter with only "*" taken for a favorite marker
RECURSIVE WithoutStars_OneStar(_)
WithoutStars_OneStar(parts) ==
  IF parts = <<>> THEN <<>>
  ELSE (IF Head(parts) = "*" THEN <<>> ELSE <<Head(parts)>>)
       \o WithoutStars_OneStar(Tail(parts))

\* tagParts.filter((tag) => tag !== "*" && tag !== "***")
RECURSIVE WithoutStars(_)
WithoutStars(parts) ==
  IF parts = <<>> THEN <<>>
  ELSE (IF Head(parts) = "*" \/ Head(parts) = "***" THEN <<>> ELSE <<Head(parts)>>)
       \o WithoutStars(Tail(parts))

parseTagsAndFavorites(tagString) ==
  IF tagString = "" THEN [tags |-> <<>>, isFavorite |-> FALSE]
  ELSE LET tagParts == TagParts(split(tagString, "|"))
       IN [tags |-> WithoutStars(tagParts),
           isFavorite |-> Contains(tagParts, "*") \/ Contains(tagParts, "***")]

\* highlightData.find((item) => item.url === url)?.highlights || []
getHighlightsForArticle(hd, url) ==
  IF \E i \in 1..Len(hd) : hd[i].url = url
  THEN hd[CHOOSE i \in 1..Len(hd) :
            hd[i].url = url /\ \A k \in 1..(i - 1) : hd[k].url # url].highlights
  ELSE <<>>

\* the filter state both memos read
FilterState(term, tags, favoritesOnly, highlightsOnly, readOnly, unreadOnly) ==
  [searchTerm |-> term, selectedTags |-> tags, showFavoritesOnly |-> favoritesOnly,
   showHighlightsOnly |-> highlightsOnly, showReadOnly |-> readOnly,
   showUnreadOnly |-> unreadOnly]

matchesSearch(article, hd, f) ==
  LET term == toLowerCase(f.searchTerm)
      highlights == getHighlightsForArticle(hd, article.url)
  IN \/ f.searchTerm = ""
     \/ includes(toLowerCase(article.title), term)
     \/ includes(toLowerCase(article.url), term)
     \/ \E i \in 1..Len(highlights) : includes(toLowerCase(highlights[i].quote), term)

matchesTags(article, f) ==
  \/ Len(f.selectedTags) = 0
  \/ \A i \in 1..Len(f.selectedTags) : Contains(article.parsedTags, f.selectedTags[i])

matchesFavorites(article, f) == ~f.showFavoritesOnly \/ article.isFavorite

matchesHighlights(article, hd, f) ==
  ~f.showHighlightsOnly \/ Len(getHighlightsForArticle(hd, article.url)) > 0

matchesReadStatus(article, f) ==
  \/ (~f.showReadOnly /\ ~f.showUnreadOnly)
  \/ (f.showReadOnly /\ article.status = "read")
  \/ (f.showUnreadOnly /\ article.status = "unread")

\* the filter callback of baseFilteredArticles
matchesBase(article, hd, f) ==
  /\ matchesSearch(article, hd, f)
  /\ matchesFavorites(article, f)
  /\ matchesHighlights(article, hd, f)
  /\ matchesReadStatus(article, f)

\* array.filter with the callback of filteredArticles, in the array's order
RECURSIVE FilterAll(_, _, _)
FilterAll(arts, hd, f) ==
  IF arts = <<>> THEN <<>>
  ELSE (IF matchesBase(Head(arts), hd, f) /\ matchesTags(Head(arts), f)
        THEN <<Head(arts)>> ELSE <<>>)
       \o FilterAll(Tail(arts), hd, f)

\* the comparator handed to filtered.sort, as a sign
Sign(n) == IF n < 0 THEN -1 ELSE IF n > 0 THEN 1 ELSE 0

compareArticles(a, b, order) ==
  CASE order = "newest"     -> Sign(b.time_added - a.time_added)
    [] order = "oldest"     -> Sign(a.time_added - b.time_added)
    [] order = "title-asc"  -> localeCompare(a.title, b.title)
    [] order = "title-desc" -> localeCompare(b.title, a.title)
    [] OTHER                -> 0

\* Array.prototype.sort is stable: an element goes behind those that compare
\* before it or equal to it and came before it
RECURSIVE InsertSorted(_, _, _)
InsertSorted_Unstable(sorted, x, order) ==
  IF sorted = <<>> THEN <<x>>
  ELSE IF compareArticles(sorted[Len(sorted)], x, order) < 0
       THEN Append(sorted, x)
       ELSE Append(InsertSorted(SubSeq(sorted, 1, Len(sorted) - 1), x, order),
                   sorted[Len(sorted)])
InsertSorted(sorted, x, order) ==
  IF sorted = <<>> THEN <<x>>
  ELSE IF compareArticles(sorted[Len(sorted)], x, order) <= 0
       THEN Append(sorted, x)
       ELSE Append(InsertSorted(SubSeq(sorted, 1, Len(sorted) - 1), x, order),
                   sorted[Len(sorted)])

RECURSIVE SortArticles(_, _)
SortArticles(arts, order) ==
  IF arts = <<>> THEN <<>>
  ELSE InsertSorted(SortArticles(SubSeq(arts, 1, Len(arts) - 1), order),
                    arts[Len(arts)], order)

FilteredArticles(arts, hd, f, order) == SortArticles(FilterAll(arts, hd, f), order)

RECURSIVE BaseFiltered(_, _, _)
BaseFiltered(arts, hd, f) ==
  IF arts = <<>> THEN <<>>
  ELSE (IF matchesBase(Head(arts), hd, f) THEN <<Head(arts)>> ELSE <<>>)
       \o BaseFiltered(Tail(arts), hd, f)

\* baseFilteredArticles narrowed to the records carrying every selected tag
RECURSIVE articlesMatchingCurrentTags(_, _)
articlesMatchingCurrentTags_Base(base, f) == base
articlesMatchingCurrentTags(base, f) ==
  IF base = <<>> THEN <<>>
  ELSE (IF \A i \in 1..Len(f.selectedTags) :
             Contains(Head(base).parsedTags, f.selectedTags[i])
        THEN <<Head(base)>> ELSE <<>>)
       \o articlesMatchingCurrentTags(Tail(base), f)

\* Array.from(new Set(...)): each value once, in the order it was first added
RECURSIVE AddAll(_, _)
AddAll(acc, items) ==
  IF items = <<>> THEN acc
  ELSE AddAll(IF Contains(acc, Head(items)) THEN acc ELSE Append(acc, Head(items)),
              Tail(items))

RECURSIVE TagsOf(_, _)
TagsOf(acc, arts) ==
  IF arts = <<>> THEN acc
  ELSE TagsOf(AddAll(acc, Head(arts).parsedTags), Tail(arts))

AvailableTags_Unnarrowed(arts, hd, f) == TagsOf(<<>>, BaseFiltered(arts, hd, f))
AvailableTags(arts, hd, f) ==
  IF Len(f.selectedTags) = 0
  THEN TagsOf(<<>>, BaseFiltered(arts, hd, f))
  ELSE TagsOf(<<>>, articlesMatchingCurrentTags(BaseFiltered(arts, hd, f), f))

\* the two memos on the component's state
CurrentFilter ==
  FilterState(searchTerm, selectedTags, showFavoritesOnly, showHighlightsOnly,
              showReadOnly, showUnreadOnly)

filteredArticles == FilteredArticles(articles, highlightData, CurrentFilter, sortBy)

availableTagsForCurrentFilters == AvailableTags(articles, highlightData, CurrentFilter)

\* the code unit of a printable ASCII character other than the grave accent:
\* " " is 32, "_" is 95, "a" is 97
FromSpace == " !\"#$%&'()*+,-./0123456789:;<=>?@ABCDEFGHIJKLMNOPQRSTUVWXYZ[\\]^_"
FromSmallA == "abcdefghijklmnopqrstuvwxyz{|}~"

charCodeAt(c) ==
  IF IndexIn(FromSpace, c) > 0 THEN 31 + IndexIn(FromSpace, c)
  ELSE 96 + IndexIn(FromSmallA, c)

\* a < b as the default comparison of Array.prototype.sort has it: by the code
\* units at the first position where the two strings differ, a prefix first
CodeUnitsBefore(a, b) ==
  \/ (Len(a) < Len(b) /\ SubSeq(b, 1, Len(a)) = a)
  \/ \E i \in 1..Len(a) :
        /\ i <= Len(b)
        /\ SubSeq(a, 1, i - 1) = SubSeq(b, 1, i - 1)
        /\ charCodeAt(CharAt(a, i)) < charCodeAt(CharAt(b, i))

\* array.sort() without a comparison function: the element at place k is the one
\* that k - 1 elements come before, equal elements in the order they had
sort(seq) ==
  [k \in 1..Len(seq) |->
     seq[CHOOSE i \in 1..Len(seq) :
           Cardinality({ j \in 1..Len(seq) :
                           \/ CodeUnitsBefore(seq[j], seq[i])
                           \/ (seq[j] = seq[i] /\ j < i) }) = k - 1]]

\* Array.from(tagSet).sort()
allUniqueTags == Only({ sort(tagSet) : tagSet \in {TagsOf(<<>>, articles)} })

\* Math.ceil(filteredArticles.length / itemsPerPage)
TotalPages(arts, hd, f, perPage) == (Len(FilterAll(arts, hd, f)) + perPage - 1) \div perPage

totalPages == TotalPages(articles, highlightData, CurrentFilter, itemsPerPage)

\* what the address bar is given for a page: page 1 has no parameter
PageParamOf(page) == IF page = 1 THEN 0 ELSE page

\* the two pagination effects after a handler left the page at c, with the
\* dataset, the filters and the page size already set: when totalPages is a new
\* value the page of the address bar is taken if it is one of the pages, and
\* when the page or the number of articles is a new value and there are
\* articles the address bar is given the page
PageEffects(c) ==
  LET synced == /\ pageParam # 0
                /\ totalPages' # totalPages
                /\ pageParam <= totalPages'
      page == IF synced THEN pageParam ELSE c
  IN /\ currentPage' = page
     /\ pageParam' = IF Len(articles') > 0
                        /\ (page # currentPage \/ Len(articles') # Len(articles))
                     THEN PageParamOf(page) ELSE pageParam

\* the controls a handler leaves alone
QuietControls == UNCHANGED <<filterVars, itemsPerPage, menuVars>>

\* selectedTags after handleTagToggle(tag)
RECURSIVE Without(_, _)
Without(seq, x) ==
  IF seq = <<>> THEN <<>>
  ELSE (IF Head(seq) = x THEN <<>> ELSE <<Head(seq)>>) \o Without(Tail(seq), x)

ToggleTag(prev, tag) == IF Contains(prev, tag) THEN Without(prev, tag) ELSE Append(prev, tag)

-----------------------------------------------------------------------------
(* Import: the rows Papa.parse hands to parseCSV, the array JSON.parse hands to
   handleJSONUpload *)

\* DOMPurify.sanitize with no tag allowed, on text that carries no markup
sanitizeString(input) == input

sanitizeHighlight(input) == input

\* /^https?:\/\//i
IsHttpUrl(text) ==
  \/ (Len(text) >= 7 /\ toLowerCase(SubSeq(text, 1, 7)) = "http://")
  \/ (Len(text) >= 8 /\ toLowerCase(SubSeq(text, 1, 8)) = "https://")

sanitizeUrl(input) == IF IsHttpUrl(input) THEN input ELSE ""

Row(title, url, time_added, tags, status) ==
  [title |-> title, url |-> url, time_added |-> time_added, tags |-> tags,
   status |-> status]

\* the record parseCSV makes of a row it keeps
ArticleOfRow(row) ==
  LET sanitizedStatus == sanitizeString(IF row.status = "" THEN "unread" ELSE row.status)
      parsed == parseTagsAndFavorites(sanitizeString(row.tags))
  IN Article(sanitizeString(row.title), sanitizeUrl(row.url), row.time_added,
             sanitizeString(row.tags),
             IF sanitizedStatus = "archive" THEN "read" ELSE sanitizedStatus,
             parsed.isFavorite, parsed.tags)

\* result.data.map(...).filter(...) over rows lo..hi, in the rows' order
RECURSIVE ParsedRows(_, _, _)
ParsedRows(rows, lo, hi) ==
  IF lo > hi THEN <<>>
  ELSE IF lo = hi
  THEN LET row == rows[lo]
           skipped == (sanitizeUrl(row.url) = "" /\ row.url # "")
           empty == (ArticleOfRow(row).title = "" /\ ArticleOfRow(row).url = "")
       IN IF skipped \/ empty THEN <<>> ELSE <<ArticleOfRow(row)>>
  ELSE ParsedRows(rows, lo, (lo + hi) \div 2) \o ParsedRows(rows, (lo + hi) \div 2 + 1, hi)

parseCSV(rows) == ParsedRows(rows, 1, Len(rows))

\* the AnnotatedRecords handleJSONUpload keeps of the parsed array
RECURSIVE sanitizedHighlights(_)
sanitizedHighlights(parsedHighlights) ==
  IF parsedHighlights = <<>> THEN <<>>
  ELSE LET item == Head(parsedHighlights)
       IN (IF sanitizeUrl(item.url) = "" THEN <<>>
           ELSE <<ArticleWithHighlights(sanitizeUrl(item.url), sanitizeString(item.title),
                     [i \in 1..Len(item.highlights) |->
                        Highlight(sanitizeHighlight(item.highlights[i].quote),
                                  item.highlights[i].created_at)])>>)
          \o sanitizedHighlights(Tail(parsedHighlights))

-----------------------------------------------------------------------------
(* SpecFilter: the filter controls on a dataset that has been imported *)

RowsLibrary ==
  << Row("Go Tips", UrlA, 30, "go | dev", "unread"),
     Row("rust book", UrlB, 20, "dev|*", "archive"),
     Row("go tips", UrlC, 20, "go", "read"),
     Row("Zen", UrlA, 10, "", "") >>

RowsAB ==
  << Row("R1", UrlA, 1, "a|b", "unread"),
     Row("R2", UrlB, 2, "a|***", "unread"),
     Row("R3", UrlC, 3, "b|c", "read") >>

NotesLibrary ==
  << ArticleWithHighlights(UrlA, "Go Tips", <<Highlight("Keep it simple", 11)>>),
     ArticleWithHighlights(UrlC, "go tips", <<>>) >>

\* two AnnotatedRecords of one url, the first without annotations
NotesTwice ==
  << ArticleWithHighlights(UrlB, "R2", <<>>),
     ArticleWithHighlights(UrlB, "R2", <<Highlight("Rust in R2", 5)>>) >>

FilterDatasets ==
  { [articles |-> parseCSV(RowsLibrary), highlightData |-> sanitizedHighlights(NotesLibrary)],
    [articles |-> parseCSV(RowsAB), highlightData |-> sanitizedHighlights(NotesTwice)] }

SearchTerms == {"", "GO", "simple", "b.io"}

SortOrders == {"default", "newest", "oldest", "title-asc", "title-desc"}

\* a control of the filter bar was used: the state setters it calls, and the
\* useMemo that puts the list back on page 1 when a dependency is a new value
\* (an array set anew is one even when its members are the same)
SetFilters(f, order, newTags, name) ==
  /\ mounted /\ ~crashed
  /\ Len(articles) > 0
  /\ searchTerm' = f.searchTerm
  /\ selectedTags' = f.selectedTags
  /\ showFavoritesOnly' = f.showFavoritesOnly
  /\ showHighlightsOnly' = f.showHighlightsOnly
  /\ showReadOnly' = f.showReadOnly
  /\ showUnreadOnly' = f.showUnreadOnly
  /\ sortBy' = order
  /\ op' = name
  /\ ret' = NoCall
  /\ thrown' = FALSE
  /\ wrote' = FALSE
  /\ UNCHANGED <<store, dataVars, itemsPerPage, infoVars, menuVars, timerVars, lifeVars,
                 now, warnedHours, edits, alerts>>
  /\ PageEffects(IF newTags \/ f # CurrentFilter \/ order # sortBy THEN 1 ELSE currentPage)

SetSearchTerm ==
  \E term \in SearchTerms :
    SetFilters([CurrentFilter EXCEPT !.searchTerm = term], sortBy, FALSE, "setSearchTerm")

\* a tag of the cloud that is not disabled, or the x of a selected tag
HandleTagToggle ==
  \E available \in {availableTagsForCurrentFilters} :
  \E tag \in Range(allUniqueTags) \cup Range(selectedTags) :
    /\ Contains(selectedTags, tag) \/ Contains(available, tag)
    /\ SetFilters([CurrentFilter EXCEPT !.selectedTags = ToggleTag(selectedTags, tag)],
                  sortBy, TRUE, "handleTagToggle")

ClearSelectedTags ==
  /\ Len(selectedTags) > 0
  /\ SetFilters([CurrentFilter EXCEPT !.selectedTags = <<>>], sortBy, TRUE, "clearSelectedTags")

ShowAll ==
  SetFilters(FilterState("", <<>>, FALSE, FALSE, FALSE, FALSE), sortBy, TRUE, "showAll")

ToggleReadOnly ==
  SetFilters([CurrentFilter EXCEPT !.showReadOnly = ~showReadOnly, !.showUnreadOnly = FALSE],
             sortBy, FALSE, "toggleReadOnly")

ToggleUnreadOnly_KeepsRead ==
  SetFilters([CurrentFilter EXCEPT !.showUnreadOnly = ~showUnreadOnly],
             sortBy, FALSE, "toggleUnreadOnly")
ToggleUnreadOnly ==
  SetFilters([CurrentFilter EXCEPT !.showUnreadOnly = ~showUnreadOnly, !.showReadOnly = FALSE],
             sortBy, FALSE, "toggleUnreadOnly")

ToggleFavoritesOnly ==
  SetFilters([CurrentFilter EXCEPT !.showFavoritesOnly = ~showFavoritesOnly],
             sortBy, FALSE, "toggleFavoritesOnly")

ToggleHighlightsOnly ==
  SetFilters([CurrentFilter EXCEPT !.showHighlightsOnly = ~showHighlightsOnly],
             sortBy, FALSE, "toggleHighlightsOnly")

SetSortBy ==
  \E order \in SortOrders : SetFilters(CurrentFilter, order, FALSE, "setSortBy")

\* the dataset is in memory, its debounced save is still to come
InitFilter ==
  /\ store = NoItem
  /\ \E d \in FilterDatasets : articles = d.articles /\ highlightData = d.highlightData
  /\ searchTerm = ""
  /\ selectedTags = <<>>
  /\ showFavoritesOnly = FALSE
  /\ showHighlightsOnly = FALSE
  /\ showReadOnly = FALSE
  /\ showUnreadOnly = FALSE
  /\ sortBy = "default"
  /\ currentPage = 1
  /\ itemsPerPage = DefaultItemsPerPage
  /\ pageParam = 0
  /\ cacheInfo = JNull
  /\ compressionMetadata = JNull
  /\ showCacheMenu = FALSE
  /\ showClearCacheConfirm = FALSE
  /\ mounted = TRUE
  /\ crashed = FALSE
  /\ loading = FALSE
  /\ zipLoading = FALSE
  /\ awaited = NoPromise
  /\ saveTimer = TRUE
  /\ migrationTimers = 0
  /\ now = OpenedAt
  /\ warnedHours = {}
  /\ edits = 0
  /\ alerts = "none"
  /\ op = "init"
  /\ ret = NoCall
  /\ thrown = FALSE
  /\ wrote = FALSE

NextFilter ==
  \/ SetSearchTerm
  \/ HandleTagToggle
  \/ ClearSelectedTags
  \/ ShowAll
  \/ ToggleReadOnly
  \/ ToggleUnreadOnly
  \/ ToggleFavoritesOnly
  \/ ToggleHighlightsOnly
  \/ SetSortBy

SpecFilter == InitFilter /\ [][NextFilter]_vars

-----------------------------------------------------------------------------
(* PocketImporter: saving and loading the dataset *)

STORAGE_WARNING_THRESHOLD == 41943040
ARTICLES_WARNING_THRESHOLD == 40000
HIGHLIGHTS_WARNING_THRESHOLD == 80000
MillisPerHour == 3600000

\* highlightsData.reduce((sum, item) => sum + item.highlights.length, 0)
RECURSIVE totalHighlights(_)
totalHighlights(highlightsData) ==
  IF highlightsData = <<>> THEN 0
  ELSE Len(Head(highlightsData).highlights) + totalHighlights(Tail(highlightsData))

RECURSIVE LargestHighlights(_)
LargestHighlights(highlightsData) ==
  IF highlightsData = <<>> THEN 0
  ELSE Max(Len(Head(highlightsData).highlights), LargestHighlights(Tail(highlightsData)))

TooManyArticles_Never(articlesData) == FALSE
TooManyArticles(articlesData) == Len(articlesData) > MAX_ARTICLES

TooManyHighlights_PerRecord(highlightsData) ==
  LargestHighlights(highlightsData) > MAX_HIGHLIGHTS
TooManyHighlights(highlightsData) == totalHighlights(highlightsData) > MAX_HIGHLIGHTS

\* (num / den).toFixed(2) in hundredths, for den a power of 1024 up to 1024^2: the
\* quotient is exact in a double, and of two nearest hundredths the larger is taken
ToFixed2(num, den) == (num \div den) * 100 + (2 * 100 * (num % den) + den) \div (2 * den)

\* Number.parseFloat of the toFixed(2) text of h hundredths, as a string: the
\* zeros at the end of the fraction are not written
ParsedFixed2(h) ==
  ToString(h \div 100)
    \o (IF h % 100 = 0 THEN ""
        ELSE IF h % 10 = 0 THEN "." \o ToString((h % 100) \div 10)
        ELSE "." \o ToString((h % 100) \div 10) \o ToString(h % 10))

\* formatBytes(bytes), for sizes below 1 GiB
formatBytes(bytes) ==
  IF bytes = 0 THEN "0 Bytes"
  ELSE IF bytes < Pow2(10) THEN ParsedFixed2(ToFixed2(bytes, 1)) \o " Bytes"
  ELSE IF bytes < Pow2(20) THEN ParsedFixed2(ToFixed2(bytes, Pow2(10))) \o " KB"
  ELSE ParsedFixed2(ToFixed2(bytes, Pow2(20))) \o " MB"

\* what setCacheInfo is given
CacheInfo(timestamp, metadata) ==
  IF metadata = JNull
  THEN [timestamp |-> timestamp, size |-> "Unknown"]
  ELSE [timestamp |-> timestamp, size |-> formatBytes(metadata.compressedSize),
        originalSize |-> formatBytes(metadata.originalSize),
        compressedSize |-> formatBytes(metadata.compressedSize),
        compressionRatio |-> metadata.compressionRatio]

\* the warnings array of saveToCache is not empty
HasWarnings(articlesData, highlightsData, metadata) ==
  \/ (Len(articlesData) >= ARTICLES_WARNING_THRESHOLD /\ Len(articlesData) < MAX_ARTICLES)
  \/ (totalHighlights(highlightsData) >= HIGHLIGHTS_WARNING_THRESHOLD
        /\ totalHighlights(highlightsData) < MAX_HIGHLIGHTS)
  \/ (metadata.originalSize >= STORAGE_WARNING_THRESHOLD
        /\ metadata.originalSize < MAX_STORAGE_SIZE)

\* the sessionStorage key of the warning: the hour Date.now() falls in
warningKey(t) == t \div MillisPerHour

\* saveToCache(articlesData, highlightsData) at time t on store st, warned being
\* the warning keys of the session: the store after it, whether it threw, the
\* alert it showed, and the state it set
saveToCache(st, articlesData, highlightsData, t, env, warned) ==
  IF TooManyArticles(articlesData)
  THEN [store |-> st, thrown |-> TRUE, alert |-> "Too many articles", set |-> FALSE,
        metadata |-> JNull, warned |-> warned]
  ELSE IF TooManyHighlights(highlightsData)
  THEN [store |-> st, thrown |-> TRUE, alert |-> "Too many highlights", set |-> FALSE,
        metadata |-> JNull, warned |-> warned]
  ELSE LET cacheData == CachedData(articlesData, highlightsData, t)
           saved == saveCompressedToLocalStorage(st, cacheData, useCompression, t, env)
       IN IF saved.thrown
          THEN [store |-> saved.store, thrown |-> TRUE,
                alert |-> "Failed to save data to cache",
                set |-> FALSE, metadata |-> JNull, warned |-> warned]
          ELSE LET warn == HasWarnings(articlesData, highlightsData, saved.metadata)
                             /\ warningKey(t) \notin { warningKey(w) : w \in warned }
               IN [store |-> saved.store, thrown |-> FALSE,
                   alert |-> IF warn THEN "Storage Usage Warning" ELSE "none",
                   set |-> TRUE, metadata |-> saved.metadata,
                   warned |-> IF warn THEN warned \cup {t} ELSE warned]

\* loadFromCache() at time t on store st: what it returned, the state it set
\* (found), whether the render after it fails because data that is no dataset was
\* set as the dataset (broken), and whether it scheduled the migration
loadFromCache(st, t, env) ==
  LET loaded == loadCompressedFromLocalStorage(st, t, env)
      cachedData == loaded.data
      metadata == loaded.metadata
  IN IF ~Truthy(cachedData)
     THEN [result |-> FALSE, found |-> FALSE, broken |-> FALSE, schedules |-> FALSE,
           articles |-> <<>>, highlightData |-> <<>>, metadata |-> JNull,
           cacheInfo |-> JNull]
     ELSE IF ~IsCachedData(cachedData)
     THEN [result |-> FALSE, found |-> TRUE, broken |-> TRUE, schedules |-> FALSE,
           articles |-> <<>>, highlightData |-> <<>>, metadata |-> metadata,
           cacheInfo |-> JNull]
     ELSE [result |-> TRUE, found |-> TRUE, broken |-> FALSE,
           schedules |-> (metadata # JNull /\ IsLegacyVersion(metadata) /\ useCompression),
           articles |-> cachedData.o.articles,
           highlightData |-> cachedData.o.highlightData,
           metadata |-> metadata,
           cacheInfo |-> CacheInfo(cachedData.o.timestamp, metadata)]

\* the effect on [articles, highlightData]: its cleanup clears the timer of the
\* run before, and it sets a new one when the dataset is not empty
SaveTimerAfter_Never(articlesData, highlightsData) == FALSE
SaveTimerAfter(articlesData, highlightsData) ==
  Len(articlesData) > 0 \/ Len(highlightsData) > 0

-----------------------------------------------------------------------------
(* PocketImporter: the handlers and the timers *)

\* a step of the component that leaves the filter bar and the menus alone
Quiet == UNCHANGED <<filterVars, pageVars, menuVars>>

\* what the environment decides for a load, and for a save of the app
LoadEnvs == { Env(Smaller, dec, FALSE) : dec \in DecodeOutcomes }

SaveEnvs == { Env(Smaller, "null", FALSE) }

\* the state loadFromCache sets, the render that follows, the timer it starts
LoadInto(l) ==
  /\ articles' = IF l.found THEN l.articles ELSE articles
  /\ highlightData' = IF l.found THEN l.highlightData ELSE highlightData
  /\ compressionMetadata' = IF l.found THEN l.metadata ELSE compressionMetadata
  /\ cacheInfo' = IF l.found /\ ~l.broken THEN l.cacheInfo ELSE cacheInfo
  /\ crashed' = l.broken
  /\ saveTimer' = IF l.broken THEN FALSE
                  ELSE IF l.found THEN SaveTimerAfter(l.articles, l.highlightData)
                  ELSE saveTimer

\* the mount effect
Mount ==
  /\ ~mounted
  /\ \E env \in LoadEnvs :
       \E l \in {loadFromCache(store, now, env)} :
          /\ LoadInto(l)
          /\ migrationTimers' = IF l.schedules THEN migrationTimers + 1 ELSE migrationTimers
          /\ ret' = [result |-> l.result]
  /\ mounted' = TRUE
  /\ op' = "loadFromCache"
  /\ thrown' = FALSE
  /\ wrote' = FALSE
  /\ alerts' = "none"
  /\ QuietControls
  /\ PageEffects(currentPage)
  /\ UNCHANGED <<store, uploadVars, now, warnedHours, edits>>

Ready == mounted /\ ~crashed

\* setArticles(articlesData) and setHighlightData(highlightsData) in a step of the
\* handler name, the render and the effects that follow
Sets(articlesData, highlightsData, name, alert) ==
  /\ articles' = articlesData
  /\ highlightData' = highlightsData
  /\ saveTimer' = SaveTimerAfter(articlesData, highlightsData)
  /\ op' = name
  /\ ret' = NoCall
  /\ thrown' = FALSE
  /\ wrote' = FALSE
  /\ alerts' = alert
  /\ QuietControls
  /\ PageEffects(currentPage)
  /\ UNCHANGED <<store, infoVars, mounted, crashed, migrationTimers, now, warnedHours>>

\* a step of the handler name that leaves the dataset as it is
Leaves(name, alert) ==
  /\ op' = name
  /\ ret' = NoCall
  /\ thrown' = FALSE
  /\ wrote' = FALSE
  /\ alerts' = alert
  /\ Quiet
  /\ UNCHANGED <<store, dataVars, infoVars, mounted, crashed, timerVars, now, warnedHours>>

\* a handler that sets the dataset to (articlesData, highlightsData)
SetDataset(articlesData, highlightsData, name, alert) ==
  /\ edits < MaxEdits
  /\ edits' = edits + 1
  /\ Sets(articlesData, highlightsData, name, alert)
  /\ UNCHANGED uploadVars

\* a handler that returned without setting the dataset
NoChange(name, alert) ==
  /\ Leaves(name, alert)
  /\ UNCHANGED <<uploadVars, edits>>

\* the articles on the page, by the url their buttons pass to the handlers
ArticleUrls == { articles[i].url : i \in 1..Len(articles) }

SaveEditedTitle ==
  /\ Ready
  /\ \E url \in ArticleUrls, editTitleValue \in {"", " Edited "} :
       LET sanitizedTitle == sanitizeString(trim(editTitleValue))
       IN IF trim(editTitleValue) = ""
          THEN NoChange("saveEditedTitle", "none")
          ELSE SetDataset([k \in 1..Len(articles) |->
                             IF articles[k].url = url
                             THEN [articles[k] EXCEPT !.title = sanitizedTitle]
                             ELSE articles[k]],
                          highlightData, "saveEditedTitle", "none")

\* articles.find((a) => a.url === url)?.title || url
TitleFor(arts, url) ==
  IF \E k \in 1..Len(arts) : arts[k].url = url
  THEN LET article == arts[CHOOSE k \in 1..Len(arts) :
                             arts[k].url = url /\ \A m \in 1..(k - 1) : arts[m].url # url]
       IN IF article.title = "" THEN url ELSE article.title
  ELSE url

\* setHighlightData's updater in saveNewHighlight
WithNewHighlight(prevHighlights, arts, url, newHighlight) ==
  IF \E k \in 1..Len(prevHighlights) : prevHighlights[k].url = url
  THEN [k \in 1..Len(prevHighlights) |->
          IF prevHighlights[k].url = url
          THEN [prevHighlights[k] EXCEPT !.highlights = Append(@, newHighlight)]
          ELSE prevHighlights[k]]
  ELSE Append(prevHighlights,
              ArticleWithHighlights(url, TitleFor(arts, url), <<newHighlight>>))

SaveNewHighlight ==
  /\ Ready
  /\ \E url \in ArticleUrls, newHighlightText \in {" noted "} :
       LET newHighlight == Highlight(sanitizeHighlight(trim(newHighlightText)), now \div 1000)
       IN /\ Len(getHighlightsForArticle(highlightData, url)) < MaxHighlights
          /\ SetDataset(articles,
                        WithNewHighlight(highlightData, articles, url, newHighlight),
                        "saveNewHighlight", "none")

\* what is typed into the url field of the add-article form
NewArticleUrls == {"", UrlA, " https://b.io ", UrlC}

SaveNewArticle_AllowsDuplicate ==
  /\ Ready
  /\ \E newArticleUrl \in NewArticleUrls, newArticleTitle \in {" Fresh "},
        newArticleTags \in {"go | ***"}, newArticleIsFavorite \in BOOLEAN :
       LET parsed == parseTagsAndFavorites(newArticleTags)
           newArticle == Article(trim(newArticleTitle),
                                 trim(newArticleUrl), now \div 1000,
                                 trim(newArticleTags), "unread",
                                 newArticleIsFavorite \/ parsed.isFavorite, parsed.tags)
       IN IF trim(newArticleUrl) = ""
          THEN NoChange("saveNewArticle", "Please enter a URL for the article.")
          ELSE SetDataset(<<newArticle>> \o articles, highlightData, "saveNewArticle",
                          "none")

SaveNewArticle ==
  /\ Ready
  /\ \E newArticleUrl \in NewArticleUrls, newArticleTitle \in {" Fresh "},
        newArticleTags \in {"go | ***"}, newArticleIsFavorite \in BOOLEAN :
       LET parsed == parseTagsAndFavorites(newArticleTags)
           newArticle == Article(IF trim(newArticleTitle) = "" THEN trim(newArticleUrl)
                                 ELSE trim(newArticleTitle),
                                 trim(newArticleUrl), now \div 1000,
                                 trim(newArticleTags), "unread",
                                 newArticleIsFavorite \/ parsed.isFavorite, parsed.tags)
       IN IF trim(newArticleUrl) = ""
          THEN NoChange("saveNewArticle", "Please enter a URL for the article.")
          ELSE IF \E k \in 1..Len(articles) : articles[k].url = trim(newArticleUrl)
          THEN NoChange("saveNewArticle", "An article with this URL already exists.")
          ELSE SetDataset(<<newArticle>> \o articles, highlightData, "saveNewArticle",
                          IF trim(newArticleTitle) = "" THEN "Security Notice" ELSE "none")

\* the files the user picks: the rows of a CSV, the array of a JSON file
ExportRows ==
  << Row("Go Tips", UrlA, 10, "go|dev", "unread"),
     Row("R0", "ftp://x", 0, "", ""),
     Row("rust book", UrlB, 20, "dev|*", "archive") >>

CsvFiles == { <<>>, ExportRows }
JsonFiles == { <<>>, <<HlA>> }

\* the promise a handler awaits and the value it resolves with
Promise(name, content) == [promise |-> name, content |-> content]

\* the change event of a file input: the handler runs up to its first await;
\* sets is the number of times it is going to set the dataset, and an upload is
\* counted among the edits at least once
Awaits(name, promise, sets) ==
  /\ Ready
  /\ ~loading /\ ~zipLoading                \* disabled={loading || zipLoading}
  /\ edits + Max(1, sets) <= MaxEdits
  /\ edits' = edits + Max(1, sets)
  /\ awaited' = promise
  /\ Leaves(name, "none")

HandleCSVUpload ==
  \E rows \in CsvFiles :
     /\ Awaits("handleCSVUpload", Promise("handleCSVUpload: file.text()", rows),
               IF Len(parseCSV(rows)) > 0 THEN 1 ELSE 0)
     /\ loading' = TRUE
     /\ zipLoading' = zipLoading

\* handleCSVUpload after its await of file.text()
HandleCSVUploadText ==
  /\ Ready
  /\ awaited.promise = "handleCSVUpload: file.text()"
  /\ LET parsedArticles == parseCSV(awaited.content)
     IN IF Len(parsedArticles) = 0
        THEN Leaves("handleCSVUpload", "Error parsing CSV: No valid articles found in the CSV file.")
        ELSE Sets(parsedArticles, highlightData, "handleCSVUpload", "none")
  /\ loading' = FALSE
  /\ awaited' = NoPromise
  /\ UNCHANGED <<zipLoading, edits>>

HandleJSONUpload ==
  \E parsedHighlights \in JsonFiles :
     /\ Awaits("handleJSONUpload", Promise("handleJSONUpload: file.text()", parsedHighlights), 1)
     /\ loading' = TRUE
     /\ zipLoading' = zipLoading

\* handleJSONUpload after its await of file.text()
HandleJSONUploadText ==
  /\ Ready
  /\ awaited.promise = "handleJSONUpload: file.text()"
  /\ Sets(articles, sanitizedHighlights(awaited.content), "handleJSONUpload", "none")
  /\ loading' = FALSE
  /\ awaited' = NoPromise
  /\ UNCHANGED <<zipLoading, edits>>

\* a file of an archive: the rows of its CSV, the array of its JSON
FileOf(content) == [file |-> TRUE, content |-> content]

\* what zip.loadAsync makes of the picked file: it rejects a file that is no
\* archive; of an archive, the first file whose name ends in .csv and the first
\* whose name ends in .json
Archive(csvFile, jsonFile) == [zip |-> TRUE, csvFile |-> csvFile, jsonFile |-> jsonFile]

NotAnArchive == [zip |-> FALSE, csvFile |-> NoFile, jsonFile |-> NoFile]

\* annotations whose urls handleJSONUpload would drop
ForeignNotes ==
  << ArticleWithHighlights("ftp://x", "T", <<Highlight("q", 1)>>),
     ArticleWithHighlights("", "U", <<>>) >>

ZipFiles ==
  { NotAnArchive,
    Archive(NoFile, NoFile),
    Archive(FileOf(ExportRows), NoFile),
    Archive(FileOf(<<>>), NoFile),
    Archive(FileOf(ExportRows), FileOf(<<HlA>>)),
    Archive(FileOf(<<>>), FileOf(<<HlA>>)),
    Archive(NoFile, FileOf(ForeignNotes)) }

\* the alert that ends handleZipUpload when the archive held a file
ImportedFromZip(csvFile, jsonFile) ==
  "Successfully imported "
    \o (IF csvFile.file THEN "articles CSV" ELSE "")
    \o (IF csvFile.file /\ jsonFile.file THEN " and " ELSE "")
    \o (IF jsonFile.file THEN "highlights JSON" ELSE "")
    \o " from ZIP file."

\* the times handleZipUpload sets the dataset for an archive
ZipSets(zipContent) ==
  (IF zipContent.csvFile.file /\ Len(parseCSV(zipContent.csvFile.content)) > 0
   THEN 1 ELSE 0)
  + (IF zipContent.jsonFile.file THEN 1 ELSE 0)

\* the change event of the ZIP input: setZipLoading(true), await zip.loadAsync(file)
HandleZipUpload ==
  \E zipContent \in ZipFiles :
     /\ Awaits("handleZipUpload", Promise("zip.loadAsync(file)", zipContent),
               ZipSets(zipContent))
     /\ zipLoading' = TRUE
     /\ loading' = loading

\* handleZipUpload after zip.loadAsync: the promise was rejected, or the files are
\* looked for and the first of them is read
HandleZipUploadLoaded ==
  /\ Ready
  /\ awaited.promise = "zip.loadAsync(file)"
  /\ \E zipContent \in {awaited.content} :
       IF ~zipContent.zip
       THEN /\ Leaves("handleZipUpload",
                      "Error processing ZIP file. Please make sure it's a valid ZIP archive.")
            /\ zipLoading' = FALSE
            /\ awaited' = NoPromise
       ELSE IF zipContent.csvFile.file
       THEN /\ Leaves("handleZipUpload", "none")
            /\ zipLoading' = zipLoading
            /\ awaited' = Promise("csvFile.async(text)", zipContent)
       ELSE IF zipContent.jsonFile.file
       THEN /\ Leaves("handleZipUpload", "none")
            /\ zipLoading' = zipLoading
            /\ awaited' = Promise("jsonFile.async(text)", zipContent)
       ELSE /\ Leaves("handleZipUpload", "No CSV or JSON files found in the ZIP archive.")
            /\ zipLoading' = FALSE
            /\ awaited' = NoPromise
  /\ UNCHANGED <<loading, edits>>

\* handleZipUpload after csvFile.async: the articles are set when there are any;
\* then the JSON file is read, or the handler ends with its alert
HandleZipUploadCsvText ==
  /\ Ready
  /\ awaited.promise = "csvFile.async(text)"
  /\ \E zipContent \in {awaited.content} :
       \E parsedArticles \in {parseCSV(zipContent.csvFile.content)} :
          \E alert \in {IF zipContent.jsonFile.file THEN "none"
                         ELSE ImportedFromZip(zipContent.csvFile, zipContent.jsonFile)} :
             /\ IF Len(parsedArticles) > 0
                THEN Sets(parsedArticles, highlightData, "handleZipUpload", alert)
                ELSE Leaves("handleZipUpload", alert)
             /\ zipLoading' = zipContent.jsonFile.file
             /\ awaited' = IF zipContent.jsonFile.file
                           THEN Promise("jsonFile.async(text)", zipContent)
                           ELSE NoPromise
  /\ UNCHANGED <<loading, edits>>

\* handleZipUpload after jsonFile.async: the array is set as it was parsed, and
\* the handler ends with its alert
HandleZipUploadJsonText ==
  /\ Ready
  /\ awaited.promise = "jsonFile.async(text)"
  /\ Sets(articles, awaited.content.jsonFile.content, "handleZipUpload",
          ImportedFromZip(awaited.content.csvFile, awaited.content.jsonFile))
  /\ zipLoading' = FALSE
  /\ awaited' = NoPromise
  /\ UNCHANGED <<loading, edits>>

\* the callback of the 100 ms timer of the save effect, in an environment of envs;
\* ret keeps what the environment did in the step
SaveTimerFiresIn(envs) ==
  /\ Ready
  /\ saveTimer
  /\ \E env \in envs :
       \E s \in {saveToCache(store, articles, highlightData, now, env, warnedHours)} :
          /\ store' = s.store
          /\ compressionMetadata' = IF s.set THEN s.metadata ELSE compressionMetadata
          /\ cacheInfo' = IF s.set THEN CacheInfo(now, s.metadata) ELSE cacheInfo
          /\ warnedHours' = s.warned
          /\ alerts' = s.alert
          /\ thrown' = s.thrown
          /\ wrote' = ~s.thrown
          /\ ret' = [env |-> env]
  /\ saveTimer' = FALSE
  /\ op' = "saveToCache"
  /\ Quiet
  /\ UNCHANGED <<dataVars, lifeVars, migrationTimers, now, edits>>

SaveTimerFires == SaveTimerFiresIn(SaveEnvs)

\* the callback whose reload sets the timer again whatever it loaded
MigrationTimerFires_Reschedules ==
  /\ Ready
  /\ migrationTimers > 0
  /\ \E env \in SaveEnvs :
       \E m \in {migrateToCompressed(store, now, env)} :
          /\ store' = m.store
          /\ wrote' = m.wrote
          /\ ret' = [migrated |-> m.result]
          /\ IF m.result
             THEN \E l \in {loadFromCache(m.store, now, env)} :
                     /\ LoadInto(l)
                     /\ migrationTimers' = migrationTimers
             ELSE /\ migrationTimers' = migrationTimers - 1
                  /\ UNCHANGED <<dataVars, infoVars, crashed, saveTimer>>
  /\ op' = "autoMigrate"
  /\ thrown' = FALSE
  /\ alerts' = "none"
  /\ QuietControls
  /\ PageEffects(currentPage)
  /\ UNCHANGED <<mounted, uploadVars, now, warnedHours, edits>>

\* the callback of the 1000 ms timer loadFromCache set: migrateToCompressed and,
\* when it returns true, loadFromCache again
MigrationTimerFires ==
  /\ Ready
  /\ migrationTimers > 0
  /\ \E env \in SaveEnvs :
       \E m \in {migrateToCompressed(store, now, env)} :
          /\ store' = m.store
          /\ wrote' = m.wrote
          /\ ret' = [migrated |-> m.result]
          /\ IF m.result
             THEN \E l \in {loadFromCache(m.store, now, env)} :
                     /\ LoadInto(l)
                     /\ migrationTimers' = IF l.schedules THEN migrationTimers
                                           ELSE migrationTimers - 1
             ELSE /\ migrationTimers' = migrationTimers - 1
                  /\ UNCHANGED <<dataVars, infoVars, crashed, saveTimer>>
  /\ op' = "autoMigrate"
  /\ thrown' = FALSE
  /\ alerts' = "none"
  /\ QuietControls
  /\ PageEffects(currentPage)
  /\ UNCHANGED <<mounted, uploadVars, now, warnedHours, edits>>

\* clearCache without setCurrentPage(1)
ClearCache_KeepsPage ==
  /\ Ready
  /\ IF ~showClearCacheConfirm
     THEN /\ showClearCacheConfirm' = TRUE
          /\ UNCHANGED <<store, dataVars, filterVars, pageVars, infoVars, showCacheMenu,
                         saveTimer>>
          /\ wrote' = FALSE
     ELSE /\ store' = NoItem
          /\ articles' = <<>>
          /\ highlightData' = <<>>
          /\ cacheInfo' = JNull
          /\ searchTerm' = ""
          /\ selectedTags' = <<>>
          /\ showFavoritesOnly' = FALSE
          /\ showHighlightsOnly' = FALSE
          /\ showReadOnly' = FALSE
          /\ showUnreadOnly' = FALSE
          /\ sortBy' = "default"
          /\ showCacheMenu' = FALSE
          /\ showClearCacheConfirm' = FALSE
          /\ saveTimer' = FALSE
          /\ wrote' = TRUE
          /\ UNCHANGED <<currentPage, itemsPerPage, pageParam, compressionMetadata>>
  /\ op' = "clearCache"
  /\ ret' = NoCall
  /\ thrown' = FALSE
  /\ alerts' = "none"
  /\ UNCHANGED <<lifeVars, migrationTimers, now, warnedHours, edits>>

\* clearCache that leaves the timer of the save effect running
ClearCache_KeepsTimer ==
  /\ Ready
  /\ IF ~showClearCacheConfirm
     THEN /\ showClearCacheConfirm' = TRUE
          /\ UNCHANGED <<store, dataVars, filterVars, pageVars, infoVars, showCacheMenu,
                         saveTimer>>
          /\ wrote' = FALSE
     ELSE /\ store' = NoItem
          /\ articles' = <<>>
          /\ highlightData' = <<>>
          /\ cacheInfo' = JNull
          /\ searchTerm' = ""
          /\ selectedTags' = <<>>
          /\ showFavoritesOnly' = FALSE
          /\ showHighlightsOnly' = FALSE
          /\ showReadOnly' = FALSE
          /\ showUnreadOnly' = FALSE
          /\ sortBy' = "default"
          /\ currentPage' = 1
          /\ showCacheMenu' = FALSE
          /\ showClearCacheConfirm' = FALSE
          /\ wrote' = TRUE
          /\ UNCHANGED <<itemsPerPage, pageParam, compressionMetadata, saveTimer>>
  /\ op' = "clearCache"
  /\ ret' = NoCall
  /\ thrown' = FALSE
  /\ alerts' = "none"
  /\ UNCHANGED <<lifeVars, migrationTimers, now, warnedHours, edits>>

\* the first call asks for confirmation, the second clears
ClearCache ==
  /\ Ready
  /\ IF ~showClearCacheConfirm
     THEN /\ showClearCacheConfirm' = TRUE
          /\ UNCHANGED <<store, dataVars, filterVars, pageVars, infoVars, showCacheMenu,
                         saveTimer>>
          /\ wrote' = FALSE
     ELSE /\ store' = NoItem
          /\ articles' = <<>>
          /\ highlightData' = <<>>
          /\ cacheInfo' = JNull
          /\ searchTerm' = ""
          /\ selectedTags' = <<>>
          /\ showFavoritesOnly' = FALSE
          /\ showHighlightsOnly' = FALSE
          /\ showReadOnly' = FALSE
          /\ showUnreadOnly' = FALSE
          /\ sortBy' = "default"
          /\ currentPage' = 1
          /\ showCacheMenu' = FALSE
          /\ showClearCacheConfirm' = FALSE
          /\ saveTimer' = FALSE
          /\ wrote' = TRUE
          /\ UNCHANGED <<itemsPerPage, pageParam, compressionMetadata>>
  /\ op' = "clearCache"
  /\ ret' = NoCall
  /\ thrown' = FALSE
  /\ alerts' = "none"
  /\ UNCHANGED <<lifeVars, migrationTimers, now, warnedHours, edits>>

-----------------------------------------------------------------------------
(* Spec: the component from the opening of the page on, its imports, edits,
   timers and clear, within the millisecond the page was opened in *)

\* what the key holds when the page is opened
OpeningStores ==
  { NoItem, Raw("not json"),
    Json(CachedData(<<>>, <<>>, 0)),
    Json(CachedData(<<ArtA>>, <<>>, 0)),
    EnvelopeOf(CachedData(<<ArtA, ArtB>>, <<HlA>>, 0), 0) }

Init == InitApp /\ store \in OpeningStores

Next ==
  \/ Mount
  \/ HandleCSVUpload
  \/ HandleCSVUploadText
  \/ HandleJSONUpload
  \/ HandleJSONUploadText
  \/ HandleZipUpload
  \/ HandleZipUploadLoaded
  \/ HandleZipUploadCsvText
  \/ HandleZipUploadJsonText
  \/ SaveEditedTitle
  \/ SaveNewHighlight
  \/ SaveNewArticle
  \/ SaveTimerFires
  \/ MigrationTimerFires
  \/ ClearCache

Spec == Init /\ [][Next]_vars

\* SpecPersist: the page is opened and the dataset is edited by hand; the event
\* loop runs the callback of a save timer that is due
NextPersist ==
  \/ Mount
  \/ SaveEditedTitle
  \/ SaveNewHighlight
  \/ SaveNewArticle
  \/ SaveTimerFires
  \/ MigrationTimerFires

SpecPersist == Init /\ [][NextPersist]_vars /\ WF_vars(SaveTimerFires)

\* the same steps when the callback of the migration timer runs once it is due
SpecChain == Init /\ [][NextPersist]_vars /\ WF_vars(MigrationTimerFires)

-----------------------------------------------------------------------------
(* SpecLimits: datasets at the limits of saveToCache, imported and about to be
   saved *)

RECURSIVE Repeat(_, _)
Repeat(s, n) ==
  IF n = 0 THEN ""
  ELSE IF n % 2 = 1 THEN s \o Repeat(s, n - 1)
  ELSE LET half == Repeat(s, n \div 2) IN half \o half

\* a title of 1024 characters
LongTitle == Repeat("Long title ....", 64) \o Repeat("x", 64)

\* what parseCSV makes of a CSV export of n rows that are all this row
Parsed(n, title) ==
  LET article == ArticleOfRow(Row(title, UrlA, 10, "go|dev", "unread"))
  IN [i \in 1..n |-> article]

\* what handleJSONUpload makes of a JSON export of two urls with n highlights each
Notes(n) ==
  LET highlights == [i \in 1..n |-> Highlight("q", 1)]
  IN << ArticleWithHighlights(UrlB, "rust book", highlights),
        ArticleWithHighlights(UrlC, "c", highlights) >>

\* the imported datasets: small, at the limits, one and two records beyond, one
\* annotation per url beyond, and within both counts but more than 50 MiB of JSON
LimitDatasets ==
  { [articles |-> Parsed(1, "Go Tips"), highlightData |-> <<>>],
    [articles |-> Parsed(MAX_ARTICLES, "Go Tips"), highlightData |-> <<>>],
    [articles |-> Parsed(MAX_ARTICLES + 1, "Go Tips"), highlightData |-> <<>>],
    [articles |-> Parsed(MAX_ARTICLES + 2, "Go Tips"), highlightData |-> <<>>],
    [articles |-> Parsed(MAX_ARTICLES, LongTitle), highlightData |-> <<>>],
    [articles |-> Parsed(1, "Go Tips"), highlightData |-> Notes(MAX_HIGHLIGHTS \div 2)],
    [articles |-> Parsed(1, "Go Tips"), highlightData |-> Notes(MAX_HIGHLIGHTS \div 2 + 1)] }

\* what was saved before the import; the mount read it and set cacheInfo and
\* compressionMetadata from it, and the imports left the two as they were
PriorStore == EnvelopeOf(CachedData(<<ArtA>>, <<>>, 0), 0)

InitImported(datasets) ==
  /\ store \in {NoItem, PriorStore}
  /\ \E d \in datasets : articles = d.articles /\ highlightData = d.highlightData
  /\ searchTerm = ""
  /\ selectedTags = <<>>
  /\ showFavoritesOnly = FALSE
  /\ showHighlightsOnly = FALSE
  /\ showReadOnly = FALSE
  /\ showUnreadOnly = FALSE
  /\ sortBy = "default"
  /\ currentPage = 1
  /\ itemsPerPage = DefaultItemsPerPage
  /\ pageParam = 0
  /\ \E env \in LoadEnvs :
       \E l \in {loadFromCache(store, OpenedAt, env)} :
          /\ ~l.broken
          /\ cacheInfo = (IF l.found THEN l.cacheInfo ELSE JNull)
          /\ compressionMetadata = (IF l.found THEN l.metadata ELSE JNull)
  /\ showCacheMenu = FALSE
  /\ showClearCacheConfirm = FALSE
  /\ mounted = TRUE
  /\ crashed = FALSE
  /\ loading = FALSE
  /\ zipLoading = FALSE
  /\ awaited = NoPromise
  /\ saveTimer = TRUE
  /\ migrationTimers = 0
  /\ now = OpenedAt
  /\ warnedHours = {}
  /\ edits = 0
  /\ alerts = "none"
  /\ op = "init"
  /\ ret = NoCall
  /\ thrown = FALSE
  /\ wrote = FALSE

InitLimits == InitImported(LimitDatasets)

NextLimits ==
  \/ SaveTimerFires
  \/ SaveNewHighlight
  \/ Tick

SpecLimits == InitLimits /\ [][NextLimits]_vars

-----------------------------------------------------------------------------
(* SpecControls: the filter bar, the debounced save and the cache menu's clear
   on one imported dataset *)

InitControls == InitFilter /\ articles = parseCSV(RowsAB)

NextControls ==
  \/ SetSearchTerm
  \/ HandleTagToggle
  \/ ClearSelectedTags
  \/ ShowAll
  \/ ToggleReadOnly
  \/ ToggleUnreadOnly
  \/ ToggleFavoritesOnly
  \/ ToggleHighlightsOnly
  \/ SetSortBy
  \/ SaveTimerFires
  \/ ClearCache

SpecControls == InitControls /\ [][NextControls]_vars

-----------------------------------------------------------------------------
(* SpecFaults: the debounced save of an imported dataset that is being edited,
   in an environment where the codec may raise and the host store may reject the
   write *)

FaultEnvs ==
  { Env(lz, "null", quota) : lz \in LzOutcomes \cup {[threw |-> TRUE]},
                            quota \in BOOLEAN }

NextFaults ==
  \/ SaveTimerFiresIn(FaultEnvs)
  \/ SaveEditedTitle
  \/ SaveNewHighlight
  \/ Tick

SpecFaults == InitFilter /\ [][NextFaults]_vars

\* the library alone in that environment
NextStoreFaults == LibSaveIn(FaultEnvs) \/ LibLoad \/ LibMigrate \/ Tick

SpecStoreFaults == InitStore /\ [][NextStoreFaults]_vars

-----------------------------------------------------------------------------
(* SpecWarn: datasets around the warning thresholds of saveToCache, imported and
   about to be saved, annotated and saved again as the clock goes on *)

WarnDatasets ==
  { [articles |-> Parsed(1, "Go Tips"), highlightData |-> <<>>],
    [articles |-> Parsed(ARTICLES_WARNING_THRESHOLD - 1, "Go Tips"), highlightData |-> <<>>],
    [articles |-> Parsed(ARTICLES_WARNING_THRESHOLD, "Go Tips"), highlightData |-> <<>>],
    [articles |-> Parsed(1, "Go Tips"),
     highlightData |-> Notes(HIGHLIGHTS_WARNING_THRESHOLD \div 2 - 1)],
    [articles |-> Parsed(1, "Go Tips"),
     highlightData |-> Notes(HIGHLIGHTS_WARNING_THRESHOLD \div 2)] }

InitWarn == InitImported(WarnDatasets)

SpecWarn == InitWarn /\ [][NextLimits]_vars

-----------------------------------------------------------------------------
(* SpecMigrate: the page opened on a bare dataset that the saveToCache of the
   release before the limits (part_000, 393-401) left under the key *)

LegacyDatasets ==
  { [articles |-> <<>>, highlightData |-> <<HlA>>],
    [articles |-> <<ArtA>>, highlightData |-> <<>>],
    [articles |-> <<ArtB>>, highlightData |-> <<>>],
    [articles |-> <<ArtB>>, highlightData |-> <<HlA>>],
    [articles |-> <<ArtA, ArtB>>, highlightData |-> <<>>],
    [articles |-> <<ArtA, ArtB>>, highlightData |-> <<HlA>>],
    [articles |-> Parsed(MAX_ARTICLES + 1, "Go Tips"), highlightData |-> <<>>] }

LegacyStores == { Json(CachedData(d.articles, d.highlightData, 0)) : d \in LegacyDatasets }

InitMigrate == InitApp /\ store \in LegacyStores

NextMigrate ==
  \/ Mount
  \/ SaveTimerFires
  \/ MigrationTimerFires
  \/ Tick

SpecMigrate == InitMigrate /\ [][NextMigrate]_vars

-----------------------------------------------------------------------------
(* SpecMenu: the cache menu of the header and its clear-cache confirmation *)

\* a click in the menu or on its icon: the menu and the confirmation after it
MenuStep(menu, confirm, name) ==
  /\ Ready
  /\ showCacheMenu' = menu
  /\ showClearCacheConfirm' = confirm
  /\ op' = name
  /\ ret' = NoCall
  /\ thrown' = FALSE
  /\ wrote' = FALSE
  /\ alerts' = "none"
  /\ UNCHANGED <<store, dataVars, filterVars, pageVars, infoVars, timerVars, lifeVars,
                 now, warnedHours, edits>>

\* the database icon, shown once there is cacheInfo
ToggleCacheMenu ==
  /\ cacheInfo # JNull
  /\ MenuStep(~showCacheMenu, showClearCacheConfirm, "toggleCacheMenu")

\* the Upload button of the menu
MenuUpload ==
  /\ cacheInfo # JNull /\ showCacheMenu
  /\ MenuStep(FALSE, showClearCacheConfirm, "menuUpload")

\* the Export button of the menu
MenuExport ==
  /\ cacheInfo # JNull /\ showCacheMenu /\ Len(articles) > 0
  /\ MenuStep(FALSE, showClearCacheConfirm, "menuExport")

\* the Cancel button of the confirmation
CancelClear ==
  /\ cacheInfo # JNull /\ showCacheMenu /\ showClearCacheConfirm
  /\ MenuStep(showCacheMenu, FALSE, "cancelClear")

\* a click on the layer behind the open menu
ClickOutside ==
  /\ showCacheMenu
  /\ MenuStep(FALSE, FALSE, "clickOutside")

\* the Clear Cache button and the Yes, Clear button of the menu
ClearCacheClicked == cacheInfo # JNull /\ showCacheMenu /\ ClearCache

NextMenu ==
  \/ SaveTimerFires
  \/ ToggleFavoritesOnly
  \/ SetSortBy
  \/ ToggleCacheMenu
  \/ MenuUpload
  \/ MenuExport
  \/ CancelClear
  \/ ClickOutside
  \/ ClearCacheClicked

SpecMenu == InitControls /\ [][NextMenu]_vars

-----------------------------------------------------------------------------
(* SpecNotes: a library and a highlights file are imported, and highlights are
   added by hand *)

NextNotes ==
  \/ SaveNewHighlight
  \/ SaveEditedTitle
  \/ SaveTimerFires
  \/ ToggleHighlightsOnly
  \/ Tick

SpecNotes == InitFilter /\ [][NextNotes]_vars

-----------------------------------------------------------------------------
(* SpecPages: a library of three pages is paged through while it is filtered,
   edited, replaced by an import and cleared *)

ITEMS_PER_PAGE_OPTIONS == <<10, 25, 50, 100>>

Min(a, b) == IF a <= b THEN a ELSE b

\* a handler that sets the page to c and nothing else
SetPage(c, name) ==
  /\ Ready
  /\ op' = name
  /\ ret' = NoCall
  /\ thrown' = FALSE
  /\ wrote' = FALSE
  /\ alerts' = "none"
  /\ UNCHANGED <<store, dataVars, filterVars, itemsPerPage, infoVars, menuVars, timerVars,
                 lifeVars, now, warnedHours, edits>>
  /\ PageEffects(c)

\* the page-size select of the controls row
SetItemsPerPage ==
  /\ Ready
  /\ Len(articles) > 0
  /\ \E option \in Range(ITEMS_PER_PAGE_OPTIONS) :
       /\ itemsPerPage' = option
       /\ op' = "setItemsPerPage"
       /\ ret' = NoCall
       /\ thrown' = FALSE
       /\ wrote' = FALSE
       /\ alerts' = "none"
       /\ UNCHANGED <<store, dataVars, filterVars, infoVars, menuVars, timerVars, lifeVars,
                      now, warnedHours, edits>>
       /\ PageEffects(IF option # itemsPerPage THEN 1 ELSE currentPage)

\* the floating pagination is rendered
PaginationShown == totalPages > 1 /\ Len(articles) > 0

PreviousPage ==
  /\ PaginationShown
  /\ currentPage # 1
  /\ SetPage(Max(1, currentPage - 1), "previousPage")

NextPage ==
  /\ PaginationShown
  /\ currentPage # totalPages
  /\ SetPage(Min(totalPages, currentPage + 1), "nextPage")

\* the page numbers that have a button
PagesShown(isMobile) ==
  LET range == IF isMobile THEN 0 ELSE 1
      start == Max(1, currentPage - range)
      end == Min(totalPages, currentPage + range)
  IN (start..end)
     \cup (IF ~isMobile /\ start > 1 THEN {1} ELSE {})
     \cup (IF ~isMobile /\ end < totalPages THEN {totalPages} ELSE {})

GoToPage ==
  /\ PaginationShown
  /\ \E isMobile \in BOOLEAN : \E pageNum \in PagesShown(isMobile) :
       SetPage(pageNum, "goToPage")

\* handleKeyDown with the focus outside the input fields
KeyDown ==
  /\ totalPages > 1
  /\ \E key \in {"ArrowLeft", "ArrowRight", "Home", "End"} :
       IF key = "ArrowLeft" /\ currentPage > 1 THEN SetPage(currentPage - 1, "keyDown")
       ELSE IF key = "ArrowRight" /\ currentPage < totalPages
            THEN SetPage(currentPage + 1, "keyDown")
       ELSE IF key = "Home" THEN SetPage(1, "keyDown")
       ELSE IF key = "End" THEN SetPage(totalPages, "keyDown")
       ELSE FALSE

\* a CSV export of twenty equal rows and one more: three pages of ten
PageDatasets ==
  { [articles |-> Parsed(20, "Go Tips") \o parseCSV(<<Row("Zen", UrlB, 5, "", "read")>>),
     highlightData |-> <<>>] }

NextPages ==
  \/ ToggleUnreadOnly
  \/ SetItemsPerPage
  \/ PreviousPage
  \/ NextPage
  \/ GoToPage
  \/ KeyDown
  \/ HandleCSVUpload
  \/ HandleCSVUploadText
  \/ SaveEditedTitle
  \/ ClearCache

SpecPages == InitImported(PageDatasets) /\ [][NextPages]_vars

-----------------------------------------------------------------------------
(* SpecClear: a saved library of two pages is searched, filtered, sorted and
   paged through, and cleared from whatever view that leaves *)

\* what parseCSV makes of a CSV export of ten equal rows and a favorite: two
\* pages of ten
ClearDatasets ==
  { [articles |-> [i \in 1..10 |-> ArticleOfRow(Row("Go Tips", UrlA, 10, "go", "unread"))]
                    \o parseCSV(<<Row("Zen", UrlB, 5, "*", "read")>>),
     highlightData |-> <<>>] }

NextClear ==
  \/ SetSearchTerm
  \/ HandleTagToggle
  \/ ToggleFavoritesOnly
  \/ ToggleHighlightsOnly
  \/ ToggleReadOnly
  \/ ToggleUnreadOnly
  \/ SetSortBy
  \/ SetItemsPerPage
  \/ NextPage
  \/ ClearCache

SpecClear == InitImported(ClearDatasets) /\ [][NextClear]_vars

-----------------------------------------------------------------------------
(* Properties *)

\* C4  Round trip: whatever dataset saveCompressedToLocalStorage has just written,
\* with or without compression, loadCompressedFromLocalStorage reads the very same
\* dataset back from the key.
RoundTrip ==
  (op = "saveCompressedToLocalStorage" /\ ~thrown) =>
    \A dec \in DecodeOutcomes :
      loadCompressedFromLocalStorage(store, now, Env(Smaller, dec, FALSE)).data = ret.data

RoundTripWitness ==
  /\ op = "saveCompressedToLocalStorage"
  /\ ~thrown
  /\ ret.useCompression
  /\ store.v.o.data.t = "lz"
  /\ Len(ret.data.o.articles) = 2
  /\ loadCompressedFromLocalStorage(store, now, Env(Smaller, "garbage", FALSE)).data = ret.data

\* C5 as stated: a load never throws, an absent key loads as {null, null}, and
\* every stored text that is not JSON loads as legacy-raw with the text as data.
LoadAbsorbsEveryText ==
  op = "loadCompressedFromLocalStorage" =>
    /\ ~thrown
    /\ store = NoItem => (ret.data = JNull /\ ret.metadata = JNull)
    /\ (store # NoItem /\ ~JSONparse(store).ok) =>
         /\ ret.metadata # JNull
         /\ ret.metadata.version = "legacy-raw"
         /\ ret.data = JStr(store)

\* C5 amended: a load never throws; an absent key and the empty text load as
\* {null, null}; every non-empty stored text that is not JSON loads as legacy-raw
\* with the text as data.
LoadAbsorbsNonEmptyText ==
  op = "loadCompressedFromLocalStorage" =>
    /\ ~thrown
    /\ (store = NoItem \/ store = Raw("")) => (ret.data = JNull /\ ret.metadata = JNull)
    /\ (store # NoItem /\ store # Raw("") /\ ~JSONparse(store).ok) =>
         /\ ret.metadata # JNull
         /\ ret.metadata.version = "legacy-raw"
         /\ ret.data = JStr(store)

LoadAbsorbsWitness ==
  /\ op = "loadCompressedFromLocalStorage"
  /\ store = Raw("not json")
  /\ ret.metadata.version = "legacy-raw"
  /\ ret.data = JStr(Raw("not json"))

\* C6  Legacy compatibility: a bare serialized dataset loads as version "legacy",
\* both sizes the byte length of the stored text, ratio 0, and the dataset itself.
LegacyBareDataset ==
  (op = "loadCompressedFromLocalStorage" /\ store.t = "json" /\ IsCachedData(store.v)) =>
    /\ ret.metadata.version = "legacy"
    /\ ret.metadata.originalSize = BlobSize(store)
    /\ ret.metadata.compressedSize = BlobSize(store)
    /\ ret.metadata.compressionRatio = ZeroRatio
    /\ ret.data = store.v

LegacyBareDatasetWitness ==
  /\ op = "loadCompressedFromLocalStorage"
  /\ store = Json(CachedData(<<ArtA, ArtB>>, <<HlA>>, 0))
  /\ ret.metadata.version = "legacy"
  /\ ret.metadata.originalSize = 410
  /\ ret.metadata.compressedSize = 410
  /\ ret.data.o.articles = <<ArtA, ArtB>>

\* an envelope of the compressed-v1 format: marked compressed, a payload that
\* compressToUTF16 made of a JSON text, and metadata of the current version
IsCompressedV1(st) ==
  /\ st.t = "json"
  /\ IsCompressedFormat(st.v)
  /\ st.v.o.data.t = "lz"
  /\ st.v.o.data.of.t = "json"
  /\ "metadata" \in DOMAIN st.v.o
  /\ st.v.o.metadata.version = COMPRESSION_VERSION

\* C8  Idempotent migration: migrateToCompressed on a key that holds a
\* compressed-v1 envelope writes nothing and leaves the stored value (its metadata
\* included) as it was; and whatever a migration writes is such an envelope, so
\* no later migration changes anything.
IdempotentMigration ==
  [][ op' = "migrateToCompressed" =>
        /\ IsCompressedV1(store) => (store' = store /\ ~wrote' /\ ret'.result)
        /\ wrote' => IsCompressedV1(store') ]_vars

IdempotentMigrationWitness ==
  /\ op = "migrateToCompressed"
  /\ IsCompressedV1(store)
  /\ ~wrote
  /\ ret.result
  /\ now > OpenedAt

\* F with the tag added to its selection
WithTag(f, tag) ==
  [f EXCEPT !.selectedTags = IF Contains(f.selectedTags, tag) THEN f.selectedTags
                             ELSE Append(f.selectedTags, tag)]

\* C9  Availability soundness: for every tag that availableTagsForCurrentFilters
\* offers, the list filtered with that tag added to the selected tags is not empty.
AvailabilitySound ==
  \A tag \in Range(availableTagsForCurrentFilters) :
    FilteredArticles(articles, highlightData, WithTag(CurrentFilter, tag), sortBy) # <<>>

AvailabilitySoundWitness ==
  /\ op = "handleTagToggle"
  /\ selectedTags = <<"a">>
  /\ Range(availableTagsForCurrentFilters) = {"a", "b"}
  /\ Contains(allUniqueTags, "c")
  /\ Len(FilteredArticles(articles, highlightData, WithTag(CurrentFilter, "b"), sortBy)) = 1

Count(seq, x) == Cardinality({ i \in 1..Len(seq) : seq[i] = x })

\* the annotations of a record in the dataset: the highlights of every
\* AnnotatedRecord that carries its url
AnnotationsOf(r) ==
  UNION { Range(highlightData[i].highlights) :
            i \in { k \in 1..Len(highlightData) : highlightData[k].url = r.url } }

ContainsIgnoringCase(text, part) == includes(toLowerCase(text), toLowerCase(part))

Visible(r) ==
  /\ \/ searchTerm = ""
     \/ ContainsIgnoringCase(r.title, searchTerm)
     \/ ContainsIgnoringCase(r.url, searchTerm)
     \/ \E h \in AnnotationsOf(r) : ContainsIgnoringCase(h.quote, searchTerm)
  /\ Range(selectedTags) \subseteq Range(r.parsedTags)
  /\ (showFavoritesOnly => r.isFavorite)
  /\ (showHighlightsOnly => AnnotationsOf(r) # {})
  /\ (showReadOnly => r.status = "read")
  /\ (showUnreadOnly => r.status = "unread")

\* C10  filteredArticles holds exactly the records of the dataset that pass every
\* filter at once (search text, all selected tags, favourites, highlights,
\* read/unread): each passing record as often as the dataset holds it, no other.
\* A record has an annotation when some AnnotatedRecord of the dataset with its
\* url holds one.
FilteredExactly ==
  LET shown == filteredArticles
  IN /\ Range(shown) \subseteq Range(articles)
     /\ \A r \in Range(articles) :
          Count(shown, r) = IF Visible(r) THEN Count(articles, r) ELSE 0

\* C7  Background migration is safe against concurrent dataset changes: the
\* migration callback (migrateToCompressed, then the reload) never replaces the
\* dataset in memory by another one, so a title edit, an added record or an added
\* annotation made between the legacy load and the callback is still in memory
\* after it.
MigrationKeepsDataset ==
  [][ op' = "autoMigrate" => (articles' = articles /\ highlightData' = highlightData) ]_vars

\* C1  A saveToCache of more than MAX_ARTICLES records (one more, and any larger
\* count) throws the limit error and writes nothing: the value under the cache key
\* is the one before the call, and the dataset in memory is retained.
ArticleLimitNoWrite ==
  [][ (op' = "saveToCache" /\ Len(articles) > MAX_ARTICLES) =>
        /\ thrown'
        /\ alerts' = "Too many articles"
        /\ store' = store
        /\ ~wrote'
        /\ articles' = articles /\ highlightData' = highlightData ]_vars

ArticleLimitWitness ==
  /\ op = "saveToCache"
  /\ thrown
  /\ alerts = "Too many articles"
  /\ Len(articles) = MAX_ARTICLES + 1
  /\ totalHighlights(highlightData) = 0
  /\ store = PriorStore

\* the bytes of JSON.stringify of the dataset in memory, saved at time t
SerializedSize(t) == BlobSize(Json(CachedData(articles, highlightData, t)))

\* C2  A saveToCache of a dataset whose uncompressed JSON is larger than
\* MAX_STORAGE_SIZE (50 MiB) throws before the write: nothing is written and the
\* store keeps the value it had.
SizeLimitNoWrite ==
  [][ (op' = "saveToCache" /\ SerializedSize(now) > MAX_STORAGE_SIZE) =>
        (thrown' /\ store' = store /\ ~wrote') ]_vars

\* C3  A saveToCache of a dataset whose highlights, summed over all
\* AnnotatedRecords, are more than MAX_HIGHLIGHTS throws the limit error before any
\* write, also when no AnnotatedRecord alone is over the limit; the stored value is
\* unchanged.
HighlightLimitNoWrite ==
  [][ (op' = "saveToCache" /\ totalHighlights(highlightData) > MAX_HIGHLIGHTS) =>
        (thrown' /\ store' = store /\ ~wrote') ]_vars

HighlightLimitWitness ==
  /\ op = "saveToCache"
  /\ thrown
  /\ alerts = "Too many highlights"
  /\ totalHighlights(highlightData) = MAX_HIGHLIGHTS + 1
  /\ LargestHighlights(highlightData) < MAX_HIGHLIGHTS
  /\ Len(highlightData) = 3
  /\ Len(articles) <= MAX_ARTICLES
  /\ store = PriorStore

\* the records of seq that compare equal to x under the sort mode, in seq's order
RECURSIVE SameRank(_, _, _)
SameRank(seq, x, order) ==
  IF seq = <<>> THEN <<>>
  ELSE (IF compareArticles(Head(seq), x, order) = 0 THEN <<Head(seq)>> ELSE <<>>)
       \o SameRank(Tail(seq), x, order)

\* C11  Sorting is stable for every sort mode: the records that compare equal are
\* shown in the order the dataset holds them, and under "default" the list is the
\* filtered records in the dataset's order.
SortStable ==
  LET passing == FilterAll(articles, highlightData, CurrentFilter)
      shown == filteredArticles
  IN /\ \A x \in Range(passing) : SameRank(shown, x, sortBy) = SameRank(passing, x, sortBy)
     /\ sortBy = "default" => shown = passing

SortStableWitness ==
  /\ sortBy = "newest"
  /\ Len(filteredArticles) = 4
  /\ filteredArticles[2].title = "rust book"
  /\ filteredArticles[3].title = "go tips"
  /\ filteredArticles[2].time_added = filteredArticles[3].time_added
  /\ articles[2].title = "rust book"

\* C12  showReadOnly and showUnreadOnly are never both true, whatever sequence of
\* filter controls (read toggle, unread toggle, show all, clear cache) was used.
ReadUnreadExclusive == ~(showReadOnly /\ showUnreadOnly)

ReadUnreadExclusiveWitness ==
  /\ op = "toggleUnreadOnly"
  /\ showUnreadOnly
  /\ ~showReadOnly
  /\ compressionMetadata # JNull
  /\ showClearCacheConfirm

\* C13  When localStorage.setItem rejects the write of a saveToCache, the key keeps
\* the value it had, saveToCache throws after the alert, the dataset in memory is
\* as it was, and cacheInfo and compressionMetadata are not set.
RejectedWriteLeavesAll ==
  [][ (op' = "saveToCache" /\ ret'.env.quota
         /\ ~TooManyArticles(articles) /\ ~TooManyHighlights(highlightData)) =>
        /\ thrown'
        /\ alerts' = "Failed to save data to cache"
        /\ ~wrote'
        /\ store' = store
        /\ articles' = articles
        /\ highlightData' = highlightData
        /\ cacheInfo' = cacheInfo
        /\ compressionMetadata' = compressionMetadata ]_vars

RejectedWriteWitness ==
  /\ op = "saveToCache"
  /\ ret.env.quota
  /\ thrown
  /\ store # NoItem
  /\ compressionMetadata # JNull
  /\ store.v.o.data.t = "lz"
  /\ store.v.o.data.of.v.o.articles # articles
  /\ cacheInfo.timestamp < now

\* C14  A codec fault never fails a save: when compressToUTF16 raises, compressData
\* returns the identity result (the input text, compressedSize = originalSize,
\* ratio 0) and saveCompressedToLocalStorage writes the envelope around that text
\* and returns its metadata.
CodecFaultStillSaves ==
  (op = "saveCompressedToLocalStorage" /\ ret.useCompression
     /\ ret.env.lz.threw /\ ~ret.env.quota) =>
    LET jsonString == Json(ret.data)
        result == compressData(jsonString, ret.env.lz)
    IN /\ result.compressed = jsonString
       /\ result.originalSize = BlobSize(jsonString)
       /\ result.compressedSize = result.originalSize
       /\ result.compressionRatio = ZeroRatio
       /\ ~thrown
       /\ wrote
       /\ ret.metadata = Metadata(COMPRESSION_VERSION, now, result.originalSize,
                                  result.originalSize, ZeroRatio)
       /\ store = Json(JObj([compressed |-> TRUE, version |-> COMPRESSION_VERSION,
                             data |-> jsonString, metadata |-> ret.metadata]))

CodecFaultWitness ==
  /\ op = "saveCompressedToLocalStorage"
  /\ ret.useCompression
  /\ ret.env.lz.threw
  /\ ~ret.env.quota
  /\ Len(ret.data.o.articles) = 2
  /\ store.v.o.data = Json(ret.data)
  /\ ret.metadata.compressedSize = 416

\* C15  Every metadata a save returns has compressedSize <= originalSize, the two
\* sizes being equal with ratio 0 when the codec fallback was taken: compression
\* never reports a stored size larger than the original.
CompressionNeverExpands ==
  (op = "saveCompressedToLocalStorage" /\ ~thrown) =>
    /\ ret.metadata.compressedSize <= ret.metadata.originalSize
    /\ (ret.useCompression /\ ret.env.lz.threw) =>
         /\ ret.metadata.compressedSize = ret.metadata.originalSize
         /\ ret.metadata.compressionRatio = ZeroRatio

\* the key decodes to exactly the dataset in memory
StoredIsCurrent ==
  LET stored == loadCompressedFromLocalStorage(store, now, Env(Smaller, "null", FALSE)).data
  IN /\ IsCachedData(stored)
     /\ stored.o.articles = articles
     /\ stored.o.highlightData = highlightData

\* the dataset is one the save effect saves: not empty and within the limits
Savable ==
  /\ Ready
  /\ Len(articles) > 0 \/ Len(highlightData) > 0
  /\ ~TooManyArticles(articles)
  /\ ~TooManyHighlights(highlightData)

\* C16  Persistence after mutation: every write of saveToCache is a complete
\* overwrite after which the key decodes to exactly the dataset in memory, and once
\* the mutations have stopped on a non-empty dataset within the limits the
\* debounced save has run, so that from then on the key decodes to that dataset.
PersistsAfterMutation ==
  /\ [][ (op' = "saveToCache" /\ wrote') => StoredIsCurrent' ]_vars
  /\ <>[](Savable => StoredIsCurrent)

PersistsWitness ==
  /\ op = "saveToCache"
  /\ wrote
  /\ edits = MaxEdits
  /\ ~saveTimer
  /\ Len(articles) = 2
  /\ Len(highlightData) = 1
  /\ StoredIsCurrent


\* C17: any two storage warnings shown by saveToCache are at least one hour
\* apart, and a save that shows a warning, or holds one back, still writes the
\* store and completes normally.
WarningsHourApart ==
  /\ \A a, b \in warnedHours : a < b => b - a >= MillisPerHour
  /\ (op = "saveToCache"
      /\ HasWarnings(articles, highlightData, compressionMetadata))
       => (wrote /\ ~thrown)


\* C18: a confirmed clear is a full reset: after it the store key is absent,
\* articles and highlightData are empty, the search text is "", no tag is
\* selected, the four flags are false, the sort mode is default and the
\* current page is 1.
FilterStateEmpty ==
  /\ searchTerm = ""
  /\ selectedTags = <<>>
  /\ ~showFavoritesOnly /\ ~showHighlightsOnly
  /\ ~showReadOnly /\ ~showUnreadOnly
  /\ sortBy = "default"

ConfirmedClearResets ==
  [][ (op' = "clearCache" /\ showClearCacheConfirm)
        => (store' = NoItem /\ articles' = <<>> /\ highlightData' = <<>>
            /\ FilterStateEmpty' /\ currentPage' = 1) ]_vars

\* a clear has been confirmed on the second page of a saved dataset: the store
\* key is gone, the dataset is empty, the page is 1 again, and the address still
\* names the page the clear started from
ConfirmedClearWitness ==
  /\ op = "clearCache" /\ wrote
  /\ store = NoItem /\ articles = <<>> /\ highlightData = <<>>
  /\ FilterStateEmpty
  /\ currentPage = 1
  /\ pageParam = 2
  /\ compressionMetadata # JNull


\* C19: in every reachable dataset no record's parsedTags holds a favorite
\* marker ("*" or "***"), and a record whose raw tag string holds one is a
\* favorite; imports, loads, added articles, title edits and added annotations
\* all keep it so.
HasMarker(tags) == Contains(tags, "*") \/ Contains(tags, "***")

MarkersOnlyFavorite ==
  \A i \in 1..Len(articles) :
     /\ ~HasMarker(articles[i].parsedTags)
     /\ HasMarker(TagParts(split(articles[i].tags, "|"))) => articles[i].isFavorite

\* nothing was stored; a CSV file with a row tagged "dev|*" has been imported
\* and an article with the tags "go | ***" has been added in front of it
MarkersWitness ==
  /\ op = "saveNewArticle"
  /\ store = NoItem
  /\ Len(articles) = 3
  /\ articles[1].tags = "go | ***"
  /\ articles[1].parsedTags = <<"go">>
  /\ articles[1].isFavorite
  /\ articles[3].tags = "dev|*"
  /\ articles[3].parsedTags = <<"dev">>
  /\ articles[3].isFavorite


\* C20: every write to the store key, by saveToCache or by the background
\* migrateToCompressed, is of a dataset within the record-count and the total
\* annotation-count limits: no step writes a dataset beyond a limit.
WritesWithinLimits ==
  (wrote /\ op \in {"saveToCache", "autoMigrate"})
    => LET stored == loadCompressedFromLocalStorage(store, now,
                                                     Env(Smaller, "null", FALSE)).data
       IN /\ IsCachedData(stored)
          /\ ~TooManyArticles(stored.o.articles)
          /\ ~TooManyHighlights(stored.o.highlightData)


\* C21  Migration preserves the data: when the key holds a legacy or legacy-raw
\* value, the data load returns after migrateToCompressed equals the data it
\* returned before, and after a migration that wrote, load reports a version that
\* is not a legacy one.
MigrationPreservesData ==
  [][ op' = "migrateToCompressed" =>
        LET before == loadCompressedFromLocalStorage(store, now, ret'.env)
            after == loadCompressedFromLocalStorage(store', now', ret'.env)
        IN (before.metadata # JNull /\ IsLegacyVersion(before.metadata))
             => /\ after.data = before.data
                /\ wrote' => (ret'.result /\ ~IsLegacyVersion(after.metadata)) ]_vars

\* a bare dataset of an older release has been migrated: the key now decodes to it
MigrationPreservesWitness ==
  /\ op = "migrateToCompressed" /\ wrote /\ ret.result
  /\ IsCompressedV1(store)
  /\ loadCompressedFromLocalStorage(store, now, ret.env).data
       = CachedData(<<ArtA, ArtB>>, <<HlA>>, 0)


\* the key holds an envelope whose save took the codec fallback: it is marked
\* compressed and its payload is the JSON text itself
IsFallbackEnvelope(st) ==
  /\ st.t = "json"
  /\ IsCompressedFormat(st.v)
  /\ st.v.o.data.t = "json"

\* C22  Decompression is defensive about input that was never compressed: a load
\* of an envelope whose save took the codec fallback gets the payload back
\* unchanged from decompressData and returns the dataset that was saved, it does
\* not throw or return other data.
FallbackPayloadLoads ==
  (op = "loadCompressedFromLocalStorage" /\ IsFallbackEnvelope(store))
    => ret.data = store.v.o.data.v


\* C23  Save and load agree on metadata: with and without compression, the load
\* right after a successful saveCompressedToLocalStorage returns metadata whose
\* version, originalSize, compressedSize and compressionRatio are those the save
\* returned, so a value just written is never reported as legacy.
SaveLoadMetadataAgree ==
  (op = "saveCompressedToLocalStorage" /\ ~thrown) =>
    \A dec \in DecodeOutcomes :
      LET loaded == loadCompressedFromLocalStorage(store, now, Env(Smaller, dec, FALSE))
      IN /\ loaded.metadata # JNull
         /\ loaded.metadata.version = ret.metadata.version
         /\ loaded.metadata.originalSize = ret.metadata.originalSize
         /\ loaded.metadata.compressedSize = ret.metadata.compressedSize
         /\ loaded.metadata.compressionRatio = ret.metadata.compressionRatio


\* C24  The two memos are consistent: availableTagsForCurrentFilters holds exactly
\* the tags of the records in filteredArticles; so a tag of the dataset that is
\* not available empties the list when it is added to the selection, and every
\* selected tag is available whenever the list is not empty.
AvailableIsTagsOfFiltered ==
  LET shown == filteredArticles
      available == Range(availableTagsForCurrentFilters)
  IN /\ available = UNION { Range(shown[i].parsedTags) : i \in 1..Len(shown) }
     /\ \A tag \in Range(allUniqueTags) \ available :
          FilteredArticles(articles, highlightData, WithTag(CurrentFilter, tag), sortBy) = <<>>
     /\ shown # <<>> => Range(selectedTags) \subseteq available

\* with "a" and "b" selected among the unread records one record is listed, its
\* tags are the available ones and the dataset's tag "c" is not among them
AvailableIsTagsWitness ==
  /\ selectedTags = <<"a", "b">>
  /\ showUnreadOnly
  /\ Len(filteredArticles) = 1
  /\ Range(availableTagsForCurrentFilters) = {"a", "b"}
  /\ Contains(allUniqueTags, "c")


\* C25  After a confirmed clear the key stays absent until the dataset is changed
\* again: in the state the clear leaves (no key, an empty dataset) neither the
\* callback of a save timer nor the callback of a migration timer set before the
\* clear writes the key, and an absent key is created by nothing but the save of
\* a dataset that is not empty.
ClearedStaysAbsent ==
  [][ /\ (store = NoItem /\ articles = <<>> /\ highlightData = <<>>
           /\ op' \in {"saveToCache", "autoMigrate"})
            => (store' = NoItem /\ ~wrote')
      /\ (store = NoItem /\ store' # NoItem)
            => (op' = "saveToCache"
                /\ (articles # <<>> \/ highlightData # <<>>)) ]_vars

\* a dataset loaded from a legacy value has been cleared and the migration
\* callback set by the load has run after the clear, found no key and written
\* nothing, all while the read of an uploaded file is pending
ClearedStaysAbsentWitness ==
  /\ op = "autoMigrate" /\ ~ret.migrated
  /\ store = NoItem /\ articles = <<>> /\ highlightData = <<>>
  /\ compressionMetadata # JNull
  /\ compressionMetadata.version = "legacy"
  /\ awaited # NoPromise


\* C26  The auto-migration chain terminates: the load of a legacy dataset sets
\* exactly one migration timer and the load of a compressed-v1 envelope sets
\* none; the callback and the reload it triggers set no further timer, and what
\* the callback writes is a compressed-v1 envelope; so a pending migration leads
\* to a state with no migration pending and a compressed-v1 envelope in the key.
MigrationChainTerminates ==
  /\ [][ (op' = "loadFromCache" /\ ~mounted) =>
           /\ (store.t = "json" /\ IsCachedData(store.v)) => migrationTimers' = 1
           /\ IsCompressedV1(store) => migrationTimers' = 0 ]_vars
  /\ [][ op' = "autoMigrate" =>
           /\ migrationTimers' = migrationTimers - 1
           /\ wrote' => IsCompressedV1(store') ]_vars
  /\ (migrationTimers > 0) ~> (migrationTimers = 0 /\ IsCompressedV1(store))

\* the callback has migrated the legacy dataset loaded when the page was opened
MigrationChainWitness ==
  /\ op = "autoMigrate" /\ ret.migrated /\ wrote
  /\ migrationTimers = 0
  /\ IsCompressedV1(store)
  /\ articles = <<ArtA>>


\* C27  Clearing takes two steps: a clearCache call made while the confirmation
\* is not showing only shows it and changes neither the key nor the dataset nor
\* the filters; the key is removed only by a clearCache call made while it is
\* showing; and Cancel, or any closing of the cache menu, takes the confirmation
\* away, so that the next clearCache call only asks again.
ClearIsTwoStep ==
  /\ [][ (op' = "clearCache" /\ ~showClearCacheConfirm) =>
           (showClearCacheConfirm' /\ UNCHANGED <<store, dataVars, filterVars>>) ]_vars
  /\ [][ (store # NoItem /\ store' = NoItem) =>
           (op' = "clearCache" /\ showClearCacheConfirm) ]_vars
  /\ [][ (op' = "cancelClear" \/ (showCacheMenu /\ ~showCacheMenu')) =>
           ~showClearCacheConfirm' ]_vars


\* the AnnotatedRecords of hd that are not for url, in order
RECURSIVE OtherRecords(_, _)
OtherRecords(hd, url) ==
  IF hd = <<>> THEN <<>>
  ELSE IF Head(hd).url = url THEN OtherRecords(Tail(hd), url)
       ELSE <<Head(hd)>> \o OtherRecords(Tail(hd), url)

\* C28: saveNewHighlight(url) with non-empty sanitized text raises the total
\* annotation count of the dataset by exactly one, leaves every Record and every
\* AnnotatedRecord of another url as it was, and the new annotation is the last
\* one getHighlightsForArticle(url) yields.
SaveNewHighlightAddsOne ==
  [][ (op' = "saveNewHighlight" /\ highlightData' # highlightData) =>
        /\ totalHighlights(highlightData') = totalHighlights(highlightData) + 1
        /\ articles' = articles
        /\ \E url \in ArticleUrls :
             LET shown == getHighlightsForArticle(highlightData', url)
             IN /\ OtherRecords(highlightData', url) = OtherRecords(highlightData, url)
                /\ shown = Append(getHighlightsForArticle(highlightData, url),
                                  Highlight("noted", now \div 1000))
                /\ Len(highlightData') =
                     IF \E k \in 1..Len(highlightData) : highlightData[k].url = url
                     THEN Len(highlightData) ELSE Len(highlightData) + 1 ]_vars


\* C29: saveNewArticle leaves the dataset unchanged when the url is empty or is
\* the url of a record of the dataset; otherwise it puts exactly one record,
\* with status unread and a url no record had, in front of the existing records,
\* which keep their content and order.
ManualAddKeepsUrlsUnique ==
  [][ op' = "saveNewArticle" =>
        /\ highlightData' = highlightData
        /\ \/ /\ articles' = articles
              /\ alerts' \in {"Please enter a URL for the article.",
                             "An article with this URL already exists."}
           \/ /\ alerts' \notin {"Please enter a URL for the article.",
                                "An article with this URL already exists."}
              /\ Len(articles') = Len(articles) + 1
              /\ Tail(articles') = articles
              /\ Head(articles').status = "unread"
              /\ Head(articles').url # ""
              /\ Head(articles').url = trim(Head(articles').url)
              /\ \A k \in 1..Len(articles) : articles[k].url # Head(articles').url ]_vars

\* an article with a third url has been added to a dataset of two records, which
\* follow it in the order they had
ManualAddWitness ==
  /\ op = "saveNewArticle"
  /\ alerts = "none"
  /\ Len(articles) = 3
  /\ articles[1].url = UrlC
  /\ articles[1].status = "unread"
  /\ Tail(articles) = <<ArtA, ArtB>>


\* C30: in every reachable state the current page is one of the pages,
\* 1 <= currentPage <= max(1, totalPages) with totalPages the number of pages of
\* filteredArticles, so the page shown is not an empty slice of a non-empty result.
CurrentPageValid ==
  /\ 1 <= currentPage
  /\ currentPage <= Max(1, (Len(filteredArticles) + itemsPerPage - 1) \div itemsPerPage)

====
